---- MODULE Spec2Model ----
(***************************************************************************)
(* A model of the HTML-to-terminal-text renderer of src/main.rs:           *)
(* extract_content_with_images, HtmlRenderer (render_element,              *)
(* render_children, ensure_newline, ensure_blank_line), should_render_image,*)
(* resolve_url, fetch_image_as_ascii and image_to_ascii.                   *)
(*                                                                         *)
(* Strings are TLA+ strings.  The module is ASCII, so every non-ASCII      *)
(* glyph the program writes (and the backtick) is stood for by one         *)
(* upper-case letter (one                                                  *)
(* character for one character); the documents of the model use no         *)
(* upper-case letter in text that reaches the output.                      *)
(***************************************************************************)
EXTENDS Integers, Sequences, FiniteSets, TLC

VARIABLES
    document,        \* the parsed document: a preorder sequence of nodes
    url,             \* the page URL handed to extract_content_with_images
    pc,              \* "start" | "render" | "done" | (buffer spec) the last call
    content_element, \* the content root chosen by the selector loop (0: none)
    stack,           \* the render_element / render_children activations
    output,          \* HtmlRenderer.output
    base_url,        \* HtmlRenderer.base_url : Option<Url>
    image_count,     \* HtmlRenderer.image_count
    list_depth,      \* HtmlRenderer.list_depth
    in_pre,          \* HtmlRenderer.in_pre
    last_was_block,  \* HtmlRenderer.last_was_block
    fetched,         \* the fetch_image_as_ascii calls issued so far, in order:
                     \* [node, url, ok], ok when the call returned a block
    visited,         \* the nodes render_children has handled so far, in order
    renders,         \* the calls of extract_content_with_images that returned:
                     \* [document, url, fetched, output]
    input,           \* (function specs) the arguments of the function called
    result,          \* (function specs) what the call returned, None before it
    app,             \* (application specs) the App of run_app, None elsewhere
    history,         \* the entries of history.json, newest first
    code             \* the KeyCode of the key event run_app handled last

vars == <<document, url, pc, content_element, stack, output, base_url,
          image_count, list_depth, in_pre, last_was_block, fetched, visited,
          renders, input, result, app, history, code>>

(***************************************************************************)
(* Option values: None is the empty tuple, Some(x) the one-element tuple.  *)
(***************************************************************************)
None == <<>>
Some(x) == <<x>>
IsSome(o) == o # <<>>
Unwrap(o) == o[1]

(***************************************************************************)
(* Glyphs.                                                                 *)
(***************************************************************************)
NL == "\n"
GLYPH_DOUBLE == "E"     \* U+2550, the h1 border
GLYPH_HEAVY == "H"      \* U+2501, the h2 border
GLYPH_LIGHT == "D"      \* U+2500, the h3 border, hr and the box edges
GLYPH_TRIANGLE == "T"   \* U+25B8, the h4..h6 marker
GLYPH_BULLET == "B"     \* U+2022
GLYPH_TOPLEFT == "F"    \* U+250C
GLYPH_TOPRIGHT == "G"   \* U+2510
GLYPH_BOTLEFT == "L"    \* U+2514
GLYPH_BOTRIGHT == "J"   \* U+2518
GLYPH_VBAR == "V"       \* U+2502
GLYPH_HOOK == "R"       \* U+21B3
GLYPH_ARROW == "A"      \* U+2192
GLYPH_BACKTICK == "K"   \* U+0060, which a string of this module cannot hold

(***************************************************************************)
(* String helpers (the std::str methods the program calls).                *)
(***************************************************************************)
RECURSIVE Repeat(_, _)
Repeat(s, n) ==
    IF n <= 0 THEN ""
    ELSE IF n = 1 THEN s
    ELSE LET half == Repeat(s, n \div 2)
         IN  half \o half \o (IF n % 2 = 1 THEN s ELSE "")

StartsWith(s, p) == Len(s) >= Len(p) /\ SubSeq(s, 1, Len(p)) = p

EndsWith(s, p) == Len(s) >= Len(p) /\ SubSeq(s, Len(s) - Len(p) + 1, Len(s)) = p

Contains(s, p) ==
    \E i \in 0..(Len(s) - Len(p)) : SubSeq(s, i + 1, i + Len(p)) = p

CharAt(s, i) == SubSeq(s, i, i)

\* char::to_lowercase on the ASCII letters
LowerOf ==
    [A |-> "a", B |-> "b", C |-> "c", D |-> "d", E |-> "e", F |-> "f", G |-> "g",
     H |-> "h", I |-> "i", J |-> "j", K |-> "k", L |-> "l", M |-> "m", N |-> "n",
     O |-> "o", P |-> "p", Q |-> "q", R |-> "r", S |-> "s", T |-> "t", U |-> "u",
     V |-> "v", W |-> "w", X |-> "x", Y |-> "y", Z |-> "z"]

LowerChar(c) == IF c \in DOMAIN LowerOf THEN LowerOf[c] ELSE c

RECURSIVE ToLowercase(_)
ToLowercase(s) ==
    IF s = "" THEN ""
    ELSE LowerChar(CharAt(s, 1)) \o ToLowercase(SubSeq(s, 2, Len(s)))

IsWhitespace(c) == c \in {" ", "\n", "\t", "\r"}

\* str::split_whitespace: the maximal runs of non-whitespace characters
RECURSIVE SplitWs(_, _, _)
SplitWs(s, i, word) ==
    IF i > Len(s) THEN (IF word = "" THEN <<>> ELSE <<word>>)
    ELSE IF IsWhitespace(CharAt(s, i))
         THEN (IF word = "" THEN <<>> ELSE <<word>>) \o SplitWs(s, i + 1, "")
         ELSE SplitWs(s, i + 1, word \o CharAt(s, i))

SplitWhitespace(s) == SplitWs(s, 1, "")

RECURSIVE JoinWith(_, _)
JoinWith(words, sep) ==
    IF words = <<>> THEN ""
    ELSE IF Len(words) = 1 THEN words[1]
    ELSE words[1] \o sep \o JoinWith(Tail(words), sep)

\* str::lines: split at "\n"; a final empty line is not produced
RECURSIVE LinesFrom(_, _)
LinesFrom(s, i) ==
    IF i > Len(s) THEN <<>>
    ELSE LET breaks == {j \in i..Len(s) : CharAt(s, j) = NL}
         IN  IF breaks = {} THEN <<SubSeq(s, i, Len(s))>>
             ELSE LET j == CHOOSE b \in breaks : \A c \in breaks : b <= c
                  IN  <<SubSeq(s, i, j - 1)>> \o LinesFrom(s, j + 1)

Lines(s) == LinesFrom(s, 1)

\* str::len is the length of the UTF-8 encoding: the glyphs outside ASCII
\* that this module stands for by a letter take three bytes each
WideGlyphs ==
    {GLYPH_DOUBLE, GLYPH_HEAVY, GLYPH_LIGHT, GLYPH_TRIANGLE, GLYPH_BULLET,
     GLYPH_TOPLEFT, GLYPH_TOPRIGHT, GLYPH_BOTLEFT, GLYPH_BOTRIGHT, GLYPH_VBAR,
     GLYPH_HOOK, GLYPH_ARROW}

ByteLen(s) == Len(s) + 2 * Cardinality({i \in 1..Len(s) : CharAt(s, i) \in WideGlyphs})

truncate_string(s, max_chars) ==
    IF Len(s) <= max_chars THEN s ELSE SubSeq(s, 1, max_chars) \o "..."

(***************************************************************************)
(* The two buffer primitives, on the buffer's content.                     *)
(***************************************************************************)
ensure_newline_NoEmptyCheck(out) ==
    IF ~EndsWith(out, NL) THEN out \o NL ELSE out

ensure_newline(out) ==
    IF out # "" /\ ~EndsWith(out, NL) THEN out \o NL ELSE out

ensure_blank_line(out) ==
    LET o1 == ensure_newline(out)
    IN  IF ~EndsWith(o1, NL \o NL) THEN o1 \o NL ELSE o1

(***************************************************************************)
(* Image-to-glyph conversion.  Image bytes are a record                    *)
(*   [len, decodable, width, height, luma]                                 *)
(* len: the number of bytes; decodable: whether image::load_from_memory    *)
(* succeeds; width, height: the decoded dimensions; luma: the brightness   *)
(* of the (uniform) picture, which resizing and to_luma8 leave unchanged.  *)
(***************************************************************************)
ASCII_CHARS == <<" ", ".", ":", "-", "=", "+", "*", "#", "%", "@">>

Min(a, b) == IF a <= b THEN a ELSE b

\* line 56
NewWidth(max_width, width) == Min(max_width, width)

\* f32 arithmetic on positive values.  A value is [m, e], m * 2^e with
\* 2^23 <= m < 2^24 (24 significant bits); every operation rounds its exact
\* result to the nearest such value, ties to the even m.
F32_BITS == 24

RoundEven(q, rem, den) ==
    IF 2 * rem > den \/ (2 * rem = den /\ q % 2 = 1) THEN q + 1 ELSE q

F32Make(m, e) ==
    IF m = 2^F32_BITS THEN [m |-> 2^(F32_BITS - 1), e |-> e + 1] ELSE [m |-> m, e |-> e]

\* long division: the quotient bits q so far, the remainder rem < w
RECURSIVE F32DivLoop(_, _, _, _)
F32DivLoop(q, rem, w, e) ==
    IF q >= 2^(F32_BITS - 1) THEN [q |-> q, rem |-> rem, e |-> e]
    ELSE F32DivLoop(2 * q + (IF 2 * rem >= w THEN 1 ELSE 0), (2 * rem) % w, w, e - 1)

\* h as f32 / w as f32, for integers 1 <= h, w < 2^23 (which f32 holds exactly)
F32Div(h, w) ==
    LET d == F32DivLoop(h \div w, h % w, w, 0)
    IN  F32Make(RoundEven(d.q, d.rem, w), d.e)

\* n as f32 * x, for an integer 1 <= n < 2^7
F32MulInt(n, x) ==
    LET p == n * x.m
        k == CHOOSE i \in 0..7 : p \div 2^i < 2^F32_BITS /\ (i = 0 \/ p \div 2^(i - 1) >= 2^F32_BITS)
    IN  F32Make(RoundEven(p \div 2^k, p % 2^k, 2^k), x.e + k)

\* x / 2.0
F32Half(x) == [x EXCEPT !.e = @ - 1]

\* x as u32: the fraction is cut off
F32ToU32(x) ==
    IF x.e >= 0 THEN x.m * 2^x.e
    ELSE IF -x.e > F32_BITS THEN 0
    ELSE x.m \div 2^(-x.e)

\* line 55
AspectRatio(width, height) == F32Div(height, width)

\* line 57: ((new_width as f32 * aspect_ratio) / 2.0) as u32
NewHeight(new_width, width, height) ==
    F32ToU32(F32Half(F32MulInt(new_width, AspectRatio(width, height))))

SizeRejected_NoUpperBound(new_width, new_height) ==
    new_width < 10 \/ new_height < 5

\* line 60
SizeRejected(new_width, new_height) ==
    new_width < 10 \/ new_height < 5 \/ new_height > 50

CharIndex_DividesBy256(brightness) == (brightness * (Len(ASCII_CHARS) - 1)) \div 256

\* line 79
CharIndex(brightness) == (brightness * (Len(ASCII_CHARS) - 1)) \div 255

image_to_ascii(image_bytes, max_width) ==
    IF ~image_bytes.decodable THEN None
    ELSE LET new_width == NewWidth(max_width, image_bytes.width)
             new_height == NewHeight(new_width, image_bytes.width, image_bytes.height)
             row == GLYPH_VBAR
                    \o Repeat(ASCII_CHARS[CharIndex(image_bytes.luma) + 1], new_width)
                    \o GLYPH_VBAR \o NL
         IN  IF SizeRejected(new_width, new_height) THEN None
             ELSE Some(NL \o GLYPH_TOPLEFT \o Repeat(GLYPH_LIGHT, new_width)
                          \o GLYPH_TOPRIGHT \o NL
                       \o Repeat(row, new_height)
                       \o GLYPH_BOTLEFT \o Repeat(GLYPH_LIGHT, new_width)
                          \o GLYPH_BOTRIGHT \o NL)

(***************************************************************************)
(* The fetch step.  The network's answer to a GET is a record              *)
(*   [sent, content_type, body]                                            *)
(* sent: whether send() returned a response; body: the image bytes.        *)
(***************************************************************************)
\* Url::parse(..).ok(): an absolute http(s) URL parses, anything else the
\* model uses (the empty string, a relative path) does not
UrlParse(s) ==
    IF StartsWith(s, "http://") \/ StartsWith(s, "https://") THEN Some(s) ELSE None

MIN_BODY_LEN == 1000

\* client.get(image_url).send() fails without a request when image_url is
\* no URL, and otherwise when the network says so
\* lines 103-125: the function gets as far as its last line, the call of
\* image_to_ascii
ReachesConverter_NoSizeCheck(image_url, response) ==
    /\ IsSome(UrlParse(image_url)) /\ response.sent
    /\ StartsWith(response.content_type, "image/")
    /\ ~(Contains(response.content_type, "svg") \/ Contains(response.content_type, "gif"))

ReachesConverter(image_url, response) ==
    /\ IsSome(UrlParse(image_url)) /\ response.sent
    /\ StartsWith(response.content_type, "image/")
    /\ ~(Contains(response.content_type, "svg") \/ Contains(response.content_type, "gif"))
    /\ ~(response.body.len < MIN_BODY_LEN)

fetch_image_as_ascii(image_url, response, max_width) ==
    IF ReachesConverter(image_url, response)
    THEN image_to_ascii(response.body, max_width)
    ELSE None

(***************************************************************************)
(* The admission filter and URL resolution.                                *)
(***************************************************************************)
should_render_image_CaseSensitive(src) ==
    LET src_lower == src
    IN  ~(  StartsWith(src_lower, "data:")
         \/ Contains(src_lower, "icon")
         \/ Contains(src_lower, "avatar")
         \/ Contains(src_lower, "sprite")
         \/ Contains(src_lower, "tracking")
         \/ Contains(src_lower, "pixel")
         \/ Contains(src_lower, "1x1")
         \/ Contains(src_lower, "badge")
         \/ Contains(src_lower, "button")
         \/ Contains(src_lower, "arrow")
         \/ Contains(src_lower, "spacer")
         \/ EndsWith(src_lower, ".svg")
         \/ EndsWith(src_lower, ".gif")
         \/ Contains(src_lower, "/static/")
         \/ Contains(src_lower, "widget")
         \/ Contains(src_lower, "logo")
         \/ Contains(src_lower, "spinner")
         \/ Contains(src_lower, "loading"))

should_render_image(src) ==
    LET src_lower == ToLowercase(src)
    IN  ~(  StartsWith(src_lower, "data:")
         \/ Contains(src_lower, "icon")
         \/ Contains(src_lower, "avatar")
         \/ Contains(src_lower, "sprite")
         \/ Contains(src_lower, "tracking")
         \/ Contains(src_lower, "pixel")
         \/ Contains(src_lower, "1x1")
         \/ Contains(src_lower, "badge")
         \/ Contains(src_lower, "button")
         \/ Contains(src_lower, "arrow")
         \/ Contains(src_lower, "spacer")
         \/ EndsWith(src_lower, ".svg")
         \/ EndsWith(src_lower, ".gif")
         \/ Contains(src_lower, "/static/")
         \/ Contains(src_lower, "widget")
         \/ Contains(src_lower, "logo")
         \/ Contains(src_lower, "spinner")
         \/ Contains(src_lower, "loading"))

\* Url::join for the references the model uses: a path relative to the
\* directory of the base
RECURSIVE DirOf(_)
DirOf(s) == IF s = "" \/ EndsWith(s, "/") THEN s ELSE DirOf(SubSeq(s, 1, Len(s) - 1))

UrlJoin(base, src) == Some(DirOf(base) \o src)

resolve_url(src, base) ==
    IF StartsWith(src, "http") THEN Some(src)
    ELSE IF StartsWith(src, "//") THEN Some("https:" \o src)
    ELSE IF IsSome(base) THEN UrlJoin(Unwrap(base), src)
    ELSE None

(***************************************************************************)
(* The parsed document.  A document is the sequence of its nodes in        *)
(* document (pre-)order; each node names its parent by index (0: none).    *)
(*   element: [kind |-> "element", tag, attrs, text |-> "", len |-> 0]     *)
(*   text:    [kind |-> "text", text]                                      *)
(*   comment: [kind |-> "comment", len]   (only its length is ever used)   *)
(* attrs is a record of the attributes that are present.  Node 1 is the    *)
(* html element and node 2 its body, as the parser always produces them.   *)
(***************************************************************************)
NoAttrs == [a \in {} |-> ""]

Element(tag, attrs) ==
    [kind |-> "element", tag |-> tag, attrs |-> attrs, text |-> "", len |-> 0, parent |-> 0]

Text(content) ==
    [kind |-> "text", tag |-> "", attrs |-> NoAttrs, text |-> content, len |-> 0, parent |-> 0]

Comment(len) ==
    [kind |-> "comment", tag |-> "", attrs |-> NoAttrs, text |-> "", len |-> len, parent |-> 0]

\* element.value().attr(name)
Attr(node, name) ==
    IF name \in DOMAIN node.attrs THEN Some(node.attrs[name]) ELSE None

Indices(d) == [i \in 1..Len(d) |-> i]

\* element.children(), in order
Children(d, i) == SelectSeq(Indices(d), LAMBDA j : d[j].parent = i)

RECURSIVE IsAncestor(_, _, _)
IsAncestor(d, a, i) ==
    IF i = 0 THEN FALSE
    ELSE d[i].parent = a \/ IsAncestor(d, a, d[i].parent)

\* the nodes of the subtree rooted at i
Subtree(d, i) == {j \in 1..Len(d) : j = i \/ IsAncestor(d, i, j)}

VoidTags == {"br", "hr", "img"}

RECURSIVE SumOver(_, _)
SumOver(f, S) ==
    IF S = {} THEN 0
    ELSE LET x == CHOOSE y \in S : TRUE IN f[x] + SumOver(f, S \ {x})

\* the length of a node's own markup in element.html()
OwnHtmlLen(node) ==
    CASE node.kind = "text" -> Len(node.text)
      [] node.kind = "comment" -> 4 + node.len + 3
      [] OTHER ->
           LET names == DOMAIN node.attrs
               alen == [a \in names |-> 1 + Len(a) + 2 + Len(node.attrs[a]) + 1]
           IN  1 + Len(node.tag) + SumOver(alen, names) + 1
               + (IF node.tag \in VoidTags THEN 0 ELSE 2 + Len(node.tag) + 1)

\* element.html().len()
HtmlLen(d, i) ==
    LET S == Subtree(d, i)
    IN  SumOver([j \in S |-> OwnHtmlLen(d[j])], S)

(***************************************************************************)
(* The nodes the documents of the model are made of, one set per           *)
(* specification (below).                                                  *)
(***************************************************************************)
PlainBody == Element("body", NoAttrs)

ImgOk == Element("img", [src |-> "http://x.com/p.jpg", alt |-> "cat"])

ImgIcon == Element("img", [src |-> "http://x.com/Icon-small.png"])
ImgRelative == Element("img", [src |-> "pics/p.jpg"])
ImgNoSrc == Element("img", [alt |-> "cat"])
ImgHttpDir == Element("img", [src |-> "httpdocs/p.jpg"])

ImgTemplates == {ImgOk, ImgIcon, ImgRelative, ImgNoSrc, ImgHttpDir, Text("a")}

\* images with lazy-load attributes: each attribute alone, two together, and
\* the placeholder pattern (a data: URL as src, the picture as data-src)
SrcUrl == "http://x.com/p.jpg"
DataSrcUrl == "http://x.com/q.jpg"
DataLazySrcUrl == "http://x.com/r.jpg"
PlaceholderUrl == "data:image/gif;base64,R0"

LazyData == Element("img", "data-src" :> DataSrcUrl)
LazyLazy == Element("img", "data-lazy-src" :> DataLazySrcUrl)
LazySrcData == Element("img", ("src" :> SrcUrl) @@ ("data-src" :> DataSrcUrl))
LazyDataLazy ==
    Element("img", ("data-src" :> DataSrcUrl) @@ ("data-lazy-src" :> DataLazySrcUrl))
LazyPlaceholder == Element("img", ("src" :> PlaceholderUrl) @@ ("data-src" :> DataSrcUrl))

LazyTemplates ==
    {LazyData, LazyLazy, LazySrcData, LazyDataLazy, LazyPlaceholder, ImgNoSrc, Text("a")}

Templates ==
    { Element(t, NoAttrs) :
        t \in {"p", "div", "br", "hr", "h1", "h2", "h3", "h4", "ul", "ol", "li", "pre",
               "code", "strong", "em", "a", "figure", "figcaption", "blockquote",
               "table", "tr", "td", "span", "cite", "nav"} }
    \cup { Element("a", [href |-> "http://x.com/y"]),
           Element("div", [class |-> "Sidebar"]),
           ImgOk,
           Text("a"), Text(" a  b "), Text("\n\n\n"), Comment(1) }

ListTemplates == {Element("ul", NoAttrs), Element("ol", NoAttrs), Element("li", NoAttrs), Text("a")}

ExclTemplates ==
    { Element(t, NoAttrs) :
        t \in {"script", "style", "nav", "header", "footer", "aside", "noscript",
               "iframe", "form", "p"} }
    \cup { Element("div", [class |-> c]) :
             c \in {"is-hidden", "Sidebar", "navbar", "top-menu", "site-footer",
                    "page-header", "advertisement", "ad-slot", "story"} }
    \cup { ImgOk, Text("a") }

RootTemplates ==
    { Element("article", NoAttrs), Element("div", [id |-> "content"]),
      Element("p", NoAttrs), Text("a"), Comment(600) }

RootBodies == {PlainBody, Element("body", [class |-> "no-sidebar"])}

AllTemplates ==
    Templates \cup ImgTemplates \cup ListTemplates \cup ExclTemplates \cup RootTemplates
    \cup LazyTemplates

(***************************************************************************)
(* The content root selector.  A selector is [anc, self]: self is the      *)
(* compound the element must match, anc (an Option) the compound one of    *)
(* its ancestors must match.  A compound is [tag, id, class, role], ""     *)
(* for a part the compound does not constrain.                             *)
(***************************************************************************)
Compound(tag, id, class, role) == [tag |-> tag, id |-> id, class |-> class, role |-> role]
ById(id) == Compound("", id, "", "")
ByClass(class) == Compound("", "", class, "")
ByTag(tag) == Compound(tag, "", "", "")
Sel(self) == [anc |-> None, self |-> self]
Within(anc, self) == [anc |-> Some(anc), self |-> self]

content_selectors == <<
    Within(ById("mw-content-text"), ByClass("mw-parser-output")),
    Sel(ById("mw-content-text")),
    Sel(ById("bodyContent")),
    Within(ByClass("question"), ByClass("s-prose")),
    Within(ByClass("answercell"), ByClass("s-prose")),
    Sel(ById("mainbar")),
    Within(ByTag("article"), ByClass("post-content")),
    Within(ByTag("article"), ByClass("entry-content")),
    Within(ByTag("article"), ByClass("content")),
    Sel(ByTag("article")),
    Within(ByTag("main"), ByClass("content")),
    Within(ByTag("main"), ByTag("article")),
    Sel(ById("main-content")),
    Sel(ByClass("main-content")),
    Sel(Compound("", "", "", "main")),
    Sel(ByTag("main")),
    Sel(ByClass("post-body")),
    Sel(ByClass("article-body")),
    Sel(ByClass("story-body")),
    Sel(ByClass("markdown-body")),
    Sel(ByClass("documentation")),
    Sel(ByClass("doc-content")),
    Sel(ById("readme")),
    Sel(ById("content")),
    Sel(ByTag("body")) >>

MIN_CONTENT_LEN == 500

HasClass(node, class) ==
    /\ IsSome(Attr(node, "class"))
    /\ \E k \in DOMAIN SplitWhitespace(Unwrap(Attr(node, "class"))) :
            SplitWhitespace(Unwrap(Attr(node, "class")))[k] = class

MatchesCompound(node, c) ==
    /\ node.kind = "element"
    /\ c.tag = "" \/ node.tag = c.tag
    /\ c.id = "" \/ Attr(node, "id") = Some(c.id)
    /\ c.class = "" \/ HasClass(node, c.class)
    /\ c.role = "" \/ Attr(node, "role") = Some(c.role)

MatchesSelector(d, i, sel) ==
    /\ MatchesCompound(d[i], sel.self)
    /\ IsSome(sel.anc) =>
          \E a \in 1..Len(d) : IsAncestor(d, a, i) /\ MatchesCompound(d[a], Unwrap(sel.anc))

\* document.select(&selector).next(): the first match in document order
SelectFirst(d, sel) ==
    LET M == {i \in 1..Len(d) : MatchesSelector(d, i, sel)}
    IN  IF M = {} THEN None ELSE Some(CHOOSE i \in M : \A j \in M : i <= j)

\* line 734
Qualifies(d, i) == HtmlLen(d, i) > MIN_CONTENT_LEN

\* the selector loop: the first selector, in list order, whose first match
\* qualifies decides; 0 when no selector does
RECURSIVE SelectorLoop(_, _)
SelectorLoop(d, k) ==
    IF k > Len(content_selectors) THEN None
    ELSE LET m == SelectFirst(d, content_selectors[k])
         IN  IF IsSome(m) /\ Qualifies(d, Unwrap(m)) THEN m
             ELSE SelectorLoop(d, k + 1)

ContentElement(d) == SelectorLoop(d, 1)

\* the element handed to render_element: the chosen one, else the body
RenderRoot(d, chosen) ==
    IF IsSome(chosen) THEN chosen ELSE SelectFirst(d, Sel(ByTag("body")))

(***************************************************************************)
(* HtmlRenderer.  The operators below work on the renderer's fields        *)
(*   self = [output, image_count, list_depth, in_pre, last_was_block]      *)
(* and return them as the code leaves them.                                *)
(***************************************************************************)
max_images == 3

IMAGE_MAX_WIDTH == 60

MAX_ALT_LEN == 100

MAX_HREF_CHARS == 40

\* HtmlRenderer::new, without base_url
NewRenderer ==
    [output |-> "", image_count |-> 0, list_depth |-> 0,
     in_pre |-> FALSE, last_was_block |-> TRUE]

Self ==
    [output |-> output, image_count |-> image_count, list_depth |-> list_depth,
     in_pre |-> in_pre, last_was_block |-> last_was_block]

SkippedTag_NoNav(tag) ==
    tag \in {"script", "style", "header", "footer", "aside", "noscript", "iframe", "form"}

\* line 419
SkippedTag(tag) ==
    tag \in {"script", "style", "nav", "header", "footer", "aside",
             "noscript", "iframe", "form"}

\* lines 425-429
HiddenClass(class) ==
    LET class_lower == ToLowercase(class)
    IN  \/ Contains(class_lower, "hidden") \/ Contains(class_lower, "sidebar")
        \/ Contains(class_lower, "nav") \/ Contains(class_lower, "menu")
        \/ Contains(class_lower, "footer") \/ Contains(class_lower, "header")
        \/ Contains(class_lower, "advertisement") \/ Contains(class_lower, "ad-")

\* lines 418-432: render_element returns before its match
Skipped(node) ==
    \/ SkippedTag(node.tag)
    \/ IsSome(Attr(node, "class")) /\ HiddenClass(Unwrap(Attr(node, "class")))

\* the arms of the match that never call render_children
LeafTags == {"br", "hr", "img"}

HR_RULE == Repeat(GLYPH_LIGHT, 40)
PRE_TOP == GLYPH_TOPLEFT \o Repeat(GLYPH_LIGHT, 41) \o GLYPH_TOPRIGHT \o NL
PRE_BOTTOM == GLYPH_BOTLEFT \o Repeat(GLYPH_LIGHT, 41) \o GLYPH_BOTRIGHT
QUOTE_MARKER == GLYPH_VBAR \o " "

\* usize::saturating_sub
SaturatingSub(a, b) == IF a >= b THEN a - b ELSE 0

\* lines 494-495
ListOpen(self) ==
    [self EXCEPT !.output = ensure_newline(@), !.list_depth = @ + 1]

ListClose_NoDecrement(self) ==
    [self EXCEPT !.output = ensure_newline(self.output), !.last_was_block = TRUE]

\* lines 497-499
ListClose(self) ==
    [self EXCEPT !.list_depth = @ - 1,
                 !.output = ensure_newline(self.output),
                 !.last_was_block = TRUE]

ItemOpen_IndentPerDepth(self) ==
    [self EXCEPT !.output = ensure_newline(@)
                            \o Repeat("  ", self.list_depth)
                            \o GLYPH_BULLET \o " "]

\* lines 502-505
ItemOpen(self) ==
    [self EXCEPT !.output = ensure_newline(@)
                            \o Repeat("  ", SaturatingSub(self.list_depth, 1))
                            \o GLYPH_BULLET \o " "]

\* lines 547-553
LinkNote(node) ==
    LET href == Attr(node, "href")
    IN  IF IsSome(href) /\ StartsWith(Unwrap(href), "http")
           /\ ~Contains(Unwrap(href), "javascript:")
        THEN " [" \o GLYPH_ARROW \o " " \o truncate_string(Unwrap(href), MAX_HREF_CHARS) \o "]"
        ELSE ""

\* lines 604-610: the text after start_len, re-emitted line by line
RECURSIVE QuoteLines(_)
QuoteLines(lines) ==
    IF lines = <<>> THEN ""
    ELSE QUOTE_MARKER \o Head(lines) \o NL \o QuoteLines(Tail(lines))

BlockquoteClose_MarksFirstLine(self, start_len) ==
    LET content == SubSeq(self.output, start_len + 1, Len(self.output))
    IN  [self EXCEPT !.output = SubSeq(self.output, 1, start_len)
                                \o QUOTE_MARKER \o content,
                     !.last_was_block = TRUE]

BlockquoteClose(self, start_len) ==
    LET content == SubSeq(self.output, start_len + 1, Len(self.output))
    IN  [self EXCEPT !.output = SubSeq(self.output, 1, start_len)
                                \o QuoteLines(Lines(content)),
                     !.last_was_block = TRUE]

BlockClose_NoNewline(self) == [self EXCEPT !.last_was_block = TRUE]

\* lines 439-440 and 445-446: what the p arm and the div arm do after
\* render_children
BlockClose(self) ==
    [self EXCEPT !.output = ensure_newline(@), !.last_was_block = TRUE]

PassthroughClose_MarksBlock(self) == [self EXCEPT !.last_was_block = TRUE]

\* lines 632-640: the span arm and the default arm do nothing after
\* render_children
PassthroughClose(self) == self

\* render_element, from the match to the call of render_children
OpenElement(self, node) ==
    LET tag == node.tag
    IN  CASE tag = "p" -> [self EXCEPT !.output = ensure_blank_line(@)]
          [] tag \in {"div", "section", "article"} ->
                [self EXCEPT !.output = ensure_newline(@)]
          [] tag = "h1" ->
                [self EXCEPT !.output = ensure_blank_line(@) \o Repeat(GLYPH_DOUBLE, 3) \o " "]
          [] tag = "h2" ->
                [self EXCEPT !.output = ensure_blank_line(@) \o Repeat(GLYPH_HEAVY, 2) \o " "]
          [] tag = "h3" ->
                [self EXCEPT !.output = ensure_blank_line(@) \o Repeat(GLYPH_LIGHT, 2) \o " "]
          [] tag \in {"h4", "h5", "h6"} ->
                [self EXCEPT !.output = ensure_blank_line(@) \o GLYPH_TRIANGLE \o " "]
          [] tag \in {"ul", "ol"} -> ListOpen(self)
          [] tag = "li" -> ItemOpen(self)
          [] tag = "pre" ->
                [self EXCEPT !.output = ensure_blank_line(@) \o PRE_TOP, !.in_pre = TRUE]
          [] tag = "code" ->
                IF ~self.in_pre THEN [self EXCEPT !.output = @ \o GLYPH_BACKTICK] ELSE self
          [] tag \in {"strong", "b"} -> [self EXCEPT !.output = @ \o "**"]
          [] tag \in {"em", "i"} -> [self EXCEPT !.output = @ \o "_"]
          [] tag = "figure" -> [self EXCEPT !.output = ensure_newline(@)]
          [] tag = "figcaption" ->
                [self EXCEPT !.output = @ \o "  " \o GLYPH_HOOK \o " "]
          [] tag = "blockquote" -> [self EXCEPT !.output = ensure_blank_line(@)]
          [] tag = "table" -> [self EXCEPT !.output = ensure_blank_line(@)]
          [] tag = "tr" ->
                [self EXCEPT !.output = ensure_newline(@) \o GLYPH_VBAR \o " "]
          [] OTHER -> self

\* render_element, after render_children returned; frame holds the locals
\* of the activation (start_len, and which branch of the code arm was taken)
CloseElement(self, node, frame) ==
    LET tag == node.tag
    IN  CASE tag = "p" -> BlockClose(self)
          [] tag \in {"div", "section", "article"} -> BlockClose(self)
          [] tag = "h1" ->
                [self EXCEPT !.output = ensure_blank_line(@ \o " " \o Repeat(GLYPH_DOUBLE, 3)),
                             !.last_was_block = TRUE]
          [] tag = "h2" ->
                [self EXCEPT !.output = ensure_blank_line(@ \o " " \o Repeat(GLYPH_HEAVY, 2)),
                             !.last_was_block = TRUE]
          [] tag = "h3" ->
                [self EXCEPT !.output = ensure_blank_line(@ \o " " \o Repeat(GLYPH_LIGHT, 2)),
                             !.last_was_block = TRUE]
          [] tag \in {"h4", "h5", "h6"} ->
                [self EXCEPT !.output = ensure_newline(@), !.last_was_block = TRUE]
          [] tag \in {"ul", "ol"} -> ListClose(self)
          [] tag = "li" -> [self EXCEPT !.last_was_block = TRUE]
          [] tag = "pre" ->
                [self EXCEPT !.in_pre = FALSE,
                             !.output = ensure_blank_line(ensure_newline(@) \o PRE_BOTTOM),
                             !.last_was_block = TRUE]
          [] tag = "code" ->
                IF frame.marked THEN [self EXCEPT !.output = @ \o GLYPH_BACKTICK] ELSE self
          [] tag \in {"strong", "b"} -> [self EXCEPT !.output = @ \o "**"]
          [] tag \in {"em", "i"} -> [self EXCEPT !.output = @ \o "_"]
          [] tag = "a" -> [self EXCEPT !.output = @ \o LinkNote(node)]
          [] tag = "figure" ->
                [self EXCEPT !.output = ensure_newline(@), !.last_was_block = TRUE]
          [] tag = "figcaption" -> [self EXCEPT !.output = ensure_newline(@)]
          [] tag = "blockquote" -> BlockquoteClose(self, frame.start_len)
          [] tag = "table" ->
                [self EXCEPT !.output = ensure_blank_line(@), !.last_was_block = TRUE]
          [] tag = "tr" -> [self EXCEPT !.last_was_block = TRUE]
          [] tag \in {"th", "td"} ->
                [self EXCEPT !.output = @ \o " " \o GLYPH_VBAR \o " "]
          [] OTHER -> PassthroughClose(self)

\* lines 448-457: the br and hr arms
RenderBreak(self) ==
    [self EXCEPT !.output = @ \o NL, !.last_was_block = TRUE]

RenderRule(self) ==
    [self EXCEPT !.output = ensure_blank_line(ensure_blank_line(@) \o HR_RULE),
                 !.last_was_block = TRUE]

RenderText_AlwaysSeparates(self, content) ==
    IF self.in_pre THEN [self EXCEPT !.output = @ \o content]
    ELSE LET normalized == JoinWith(SplitWhitespace(content), " ")
         IN  IF normalized = "" THEN self
             ELSE [self EXCEPT
                     !.output =
                        (IF ~self.last_was_block /\ self.output # ""
                         THEN self.output \o " " ELSE self.output) \o normalized,
                     !.last_was_block = FALSE]

\* lines 647-665: a text child
RenderText(self, content) ==
    IF self.in_pre THEN [self EXCEPT !.output = @ \o content]
    ELSE LET normalized == JoinWith(SplitWhitespace(content), " ")
         IN  IF normalized = "" THEN self
             ELSE [self EXCEPT
                     !.output =
                        (IF ~self.last_was_block /\ self.output # ""
                            /\ ~EndsWith(self.output, " ") /\ ~EndsWith(self.output, NL)
                         THEN self.output \o " " ELSE self.output) \o normalized,
                     !.last_was_block = FALSE]

(***************************************************************************)
(* The img arm.                                                            *)
(***************************************************************************)
ImageSlotFree_OffByOne(self) == self.image_count <= max_images

\* line 558
ImageSlotFree(self) == self.image_count < max_images

ImageSrc_PrefersDataSrc(node) ==
    IF IsSome(Attr(node, "data-src")) THEN Attr(node, "data-src")
    ELSE IF IsSome(Attr(node, "src")) THEN Attr(node, "src")
    ELSE Attr(node, "data-lazy-src")

\* lines 559-561
ImageSrc(node) ==
    IF IsSome(Attr(node, "src")) THEN Attr(node, "src")
    ELSE IF IsSome(Attr(node, "data-src")) THEN Attr(node, "data-src")
    ELSE Attr(node, "data-lazy-src")

\* should_render_image on the srcs of the model's documents, evaluated once
ModelSrcs == {Unwrap(ImageSrc(t)) : t \in {n \in AllTemplates : IsSome(ImageSrc(n))}}
AdmissionTable == [src \in ModelSrcs |-> should_render_image(src)]

\* lines 558-565: the URL fetch_image_as_ascii is called with, None when
\* the arm gives up before the call
FetchUrl(self, node, base) ==
    IF ImageSlotFree(self) /\ IsSome(ImageSrc(node))
       /\ AdmissionTable[Unwrap(ImageSrc(node))]
    THEN resolve_url(Unwrap(ImageSrc(node)), base)
    ELSE None

\* lines 569-573
Caption(node) ==
    LET alt == Attr(node, "alt")
    IN  IF IsSome(alt) /\ Unwrap(alt) # "" /\ ByteLen(Unwrap(alt)) < MAX_ALT_LEN
        THEN "[Image: " \o Unwrap(alt) \o "]" \o NL
        ELSE ""

\* lines 567-577
EmitImage(self, node, ascii_art) ==
    [self EXCEPT !.output = ensure_blank_line(
                                ensure_blank_line(@) \o Caption(node) \o ascii_art),
                 !.image_count = @ + 1,
                 !.last_was_block = TRUE]

RenderImage_BlankLineFirst(self, node, art) ==
    IF IsSome(art) THEN EmitImage(self, node, Unwrap(art))
    ELSE [self EXCEPT !.output = ensure_blank_line(@), !.last_was_block = TRUE]

\* lines 557-583: art is what fetch_image_as_ascii returned (None if it was
\* not called)
RenderImage(self, node, art) ==
    IF IsSome(art) THEN EmitImage(self, node, Unwrap(art)) ELSE self

(***************************************************************************)
(* The network: the answers a GET for an image may get.                    *)
(***************************************************************************)
ImageBytes(len, decodable, width, height, luma) ==
    [len |-> len, decodable |-> decodable, width |-> width, height |-> height,
     luma |-> luma]

Response(sent, content_type, body) ==
    [sent |-> sent, content_type |-> content_type, body |-> body]

GoodBytes == ImageBytes(2000, TRUE, 10, 10, 128)

\* no GET was sent
NoResponse == Response(FALSE, "", ImageBytes(0, FALSE, 1, 1, 0))

Responses ==
    { NoResponse,                                                   \* send() failed
      Response(TRUE, "text/html", GoodBytes),                       \* not an image
      Response(TRUE, "image/svg+xml", GoodBytes),                   \* svg
      Response(TRUE, "image/png", ImageBytes(999, TRUE, 10, 10, 128)),   \* small body
      Response(TRUE, "image/png", ImageBytes(2000, FALSE, 1, 1, 0)),     \* undecodable
      Response(TRUE, "image/png", ImageBytes(2000, TRUE, 8, 8, 128)),    \* too narrow
      Response(TRUE, "image/jpeg", GoodBytes) }                     \* a 10x5 block

(***************************************************************************)
(* The documents of the model: every document of at most n nodes below     *)
(* the body, each node drawn from a set of templates, in every shape.  A   *)
(* shape gives the parent of each node of the preorder: the body or a node *)
(* on the path from the body to the node before it.                        *)
(***************************************************************************)
CanHaveChildren(node) == node.kind = "element" /\ node.tag \notin VoidTags

\* node k of a shape is node k + 2 of the document
RECURSIVE ShapePath(_, _)
ShapePath(shape, i) ==
    IF i <= 2 THEN {2} ELSE {i} \cup ShapePath(shape, shape[i - 2])

RECURSIVE Shapes(_)
Shapes(n) ==
    IF n = 0 THEN {<<>>}
    ELSE UNION { {Append(s, q) : q \in ShapePath(s, n + 1)} : s \in Shapes(n - 1) }

\* only an element that is not void has children
ShapeFits(shape, nodes) ==
    \A k \in DOMAIN shape : shape[k] > 2 => CanHaveChildren(nodes[shape[k] - 2])

BuildDocument(body, shape, nodes) ==
    << Element("html", NoAttrs), [body EXCEPT !.parent = 1] >>
    \o [k \in DOMAIN shape |-> [nodes[k] EXCEPT !.parent = shape[k]]]

PageUrl == "http://x.com/a/b.html"

(***************************************************************************)
(* The walk.  stack holds one frame per activation of render_element that  *)
(* is inside render_children: [node, rest, start_len, marked], rest the    *)
(* children not yet visited.  The bottom frame (node 0) stands for         *)
(* extract_content_with_images, whose one "child" is the content root.     *)
(***************************************************************************)
Frame(node, rest, start_len, marked) ==
    [node |-> node, rest |-> rest, start_len |-> start_len, marked |-> marked]

Top == stack[Len(stack)]

SetRenderer(self) ==
    /\ output' = self.output
    /\ image_count' = self.image_count
    /\ list_depth' = self.list_depth
    /\ in_pre' = self.in_pre
    /\ last_was_block' = self.last_was_block

Advance_SameChild(stk) == stk

\* the child at the head of the top frame has been dealt with
Advance(stk) ==
    [stk EXCEPT ![Len(stk)].rest = Tail(@)]

\* render_children as the function it computes: the renderer after the
\* nodes kids of d, and all below them, have been rendered from self.
\* arts[j] is what fetch_image_as_ascii returned for the img node j (a node
\* outside its domain was not fetched).
NoArts == [j \in {} |-> None]

RECURSIVE render_children(_, _, _, _)
render_children(self, d, kids, arts) ==
    IF kids = <<>> THEN self
    ELSE LET j == Head(kids)
             node == d[j]
             opened == OpenElement(self, node)
             frame == Frame(j, <<>>,
                            IF node.tag = "blockquote" THEN Len(opened.output) ELSE 0,
                            node.tag = "code" /\ ~self.in_pre)
             after ==
                CASE node.kind = "text" -> RenderText(self, node.text)
                  [] node.kind = "comment" -> self
                  [] Skipped(node) -> self
                  [] node.tag = "br" -> RenderBreak(self)
                  [] node.tag = "hr" -> RenderRule(self)
                  [] node.tag = "img" ->
                        RenderImage(self, node, IF j \in DOMAIN arts THEN arts[j] ELSE None)
                  [] OTHER ->
                        CloseElement(render_children(opened, d, Children(d, j), arts),
                                     node, frame)
         IN  render_children(after, d, Tail(kids), arts)

InitWith(templates, bodies, urls, max_nodes) ==
    /\ \E n \in 0..max_nodes : \E shape \in Shapes(n) : \E nodes \in [1..n -> templates] :
          \E body \in bodies :
             /\ ShapeFits(shape, nodes)
             /\ document = BuildDocument(body, shape, nodes)
    /\ url \in urls
    /\ pc = "start"
    /\ content_element = 0
    /\ stack = <<>>
    /\ output = NewRenderer.output
    /\ base_url = None
    /\ image_count = NewRenderer.image_count
    /\ list_depth = NewRenderer.list_depth
    /\ in_pre = NewRenderer.in_pre
    /\ last_was_block = NewRenderer.last_was_block
    /\ fetched = <<>>
    /\ visited = <<>>
    /\ renders = <<>>
    /\ input = None
    /\ result = None
    /\ app = None
    /\ history = <<>>
    /\ code = None

ExtractContent_ReusedRenderer ==
    /\ pc = "start"
    /\ LET chosen == ContentElement(document)
       IN  /\ content_element' = (IF IsSome(chosen) THEN Unwrap(chosen) ELSE 0)
           /\ stack' = << Frame(0, RenderRoot(document, chosen), 0, FALSE) >>
    /\ SetRenderer(Self)
    /\ base_url' = UrlParse(url)
    /\ pc' = "render"
    /\ UNCHANGED <<document, url, fetched, visited, renders, input, result, app, history, code>>

\* extract_content_with_images, lines 697-754, up to the call of
\* render_element on the root
ExtractContent ==
    /\ pc = "start"
    /\ LET chosen == ContentElement(document)
       IN  /\ content_element' = (IF IsSome(chosen) THEN Unwrap(chosen) ELSE 0)
           /\ stack' = << Frame(0, RenderRoot(document, chosen), 0, FALSE) >>
    /\ SetRenderer(NewRenderer)
    /\ base_url' = UrlParse(url)
    /\ pc' = "render"
    /\ UNCHANGED <<document, url, fetched, visited, renders, input, result, app, history, code>>

\* one iteration of the loop of render_children (for the bottom frame, the
\* call of render_element on the root): a text child is appended, an
\* element child goes through render_element up to its render_children
RenderChild ==
    /\ pc = "render"
    /\ Top.rest # <<>>
    /\ LET child == Head(Top.rest)
           node == document[child]
           kind == IF node.kind # "element" THEN node.kind
                   ELSE IF Skipped(node) THEN "skipped"
                   ELSE IF node.tag \in LeafTags THEN node.tag
                   ELSE "parent"
           full_url == IF kind = "img" THEN FetchUrl(Self, node, base_url) ELSE None
       IN  \E response \in (IF IsSome(full_url) THEN Responses ELSE {NoResponse}) :
             LET art == IF IsSome(full_url)
                        THEN fetch_image_as_ascii(Unwrap(full_url), response, IMAGE_MAX_WIDTH)
                        ELSE None
                 opened == OpenElement(Self, node)
             IN  /\ fetched' = (IF IsSome(full_url)
                                THEN Append(fetched, [node |-> child, url |-> Unwrap(full_url),
                                                       ok |-> IsSome(art)])
                                ELSE fetched)
                 /\ CASE kind = "text" ->
                           /\ SetRenderer(RenderText(Self, node.text))
                           /\ stack' = Advance(stack)
                      [] kind \in {"comment", "skipped"} ->
                           /\ SetRenderer(Self)
                           /\ stack' = Advance(stack)
                      [] kind = "br" ->
                           /\ SetRenderer(RenderBreak(Self))
                           /\ stack' = Advance(stack)
                      [] kind = "hr" ->
                           /\ SetRenderer(RenderRule(Self))
                           /\ stack' = Advance(stack)
                      [] kind = "img" ->
                           /\ SetRenderer(RenderImage(Self, node, art))
                           /\ stack' = Advance(stack)
                      [] kind = "parent" ->
                           /\ SetRenderer(opened)
                           /\ stack' = Append(stack,
                                  Frame(child, Children(document, child),
                                        IF node.tag = "blockquote" THEN Len(opened.output) ELSE 0,
                                        node.tag = "code" /\ ~in_pre))
    /\ visited' = Append(visited, Head(Top.rest))
    /\ UNCHANGED <<document, url, pc, content_element, base_url, renders, input, result, app, history, code>>

\* render_children returned: the rest of the element's arm, and the return
\* to the caller's loop
ReturnElement ==
    /\ pc = "render"
    /\ Top.rest = <<>>
    /\ Top.node # 0
    /\ SetRenderer(CloseElement(Self, document[Top.node], Top))
    /\ stack' = Advance(SubSeq(stack, 1, Len(stack) - 1))
    /\ UNCHANGED <<document, url, pc, content_element, base_url, fetched, visited,
                   renders, input, result, app, history, code>>

\* renderer.finish()
Finish ==
    /\ pc = "render"
    /\ Top.rest = <<>>
    /\ Top.node = 0
    /\ pc' = "done"
    /\ stack' = <<>>
    /\ renders' = Append(renders, [document |-> document, url |-> url,
                                    fetched |-> fetched, output |-> output])
    /\ UNCHANGED <<document, url, content_element, output, base_url, image_count,
                   list_depth, in_pre, last_was_block, fetched, visited, input, result, app, history, code>>

Next == ExtractContent \/ RenderChild \/ ReturnElement \/ Finish

(***************************************************************************)
(* Spec: documents over every kind of element the renderer has an arm for. *)
(***************************************************************************)
MaxNodes == 2

Init == InitWith(Templates, {PlainBody}, {PageUrl}, MaxNodes)

Spec == Init /\ [][Next]_vars

(***************************************************************************)
(* SpecImg: documents of images (admissible, rejected by the filter,       *)
(* relative, without src) and text, with and without a base URL.           *)
(***************************************************************************)
MaxImgNodes == 4

InitImg == InitWith(ImgTemplates, {PlainBody}, {PageUrl, ""}, MaxImgNodes)

SpecImg == InitImg /\ [][Next]_vars

(***************************************************************************)
(* SpecList: documents of lists, list items and text.                      *)
(***************************************************************************)
MaxListNodes == 3

InitList == InitWith(ListTemplates, {PlainBody}, {PageUrl}, MaxListNodes)

SpecList == InitList /\ [][Next]_vars

(***************************************************************************)
(* SpecExcl: documents with every excluded tag and an element for every    *)
(* token of the class denylist, around images and text.                    *)
(***************************************************************************)
MaxExclNodes == 2

InitExcl == InitWith(ExclTemplates, {PlainBody}, {PageUrl}, MaxExclNodes)

SpecExcl == InitExcl /\ [][Next]_vars

(***************************************************************************)
(* SpecRoot: documents for the content root selector: candidates of the    *)
(* selector list, large and small, under a plain body and under a body     *)
(* that carries a class.                                                   *)
(***************************************************************************)
MaxRootNodes == 3

InitRoot == InitWith(RootTemplates, RootBodies, {PageUrl}, MaxRootNodes)

SpecRoot == InitRoot /\ [][Next]_vars

(***************************************************************************)
(* SpecBuf: the two buffer primitives called, in any order, on any buffer. *)
(* pc names the last call; "..._again" when the call before it was the     *)
(* same.                                                                   *)
(***************************************************************************)
MaxBufLen == 4

RECURSIVE Buffers(_)
Buffers(n) ==
    IF n = 0 THEN {""}
    ELSE LET shorter == Buffers(n - 1)
         IN  shorter \cup {b \o c : b \in shorter, c \in {"a", " ", NL}}

InitBuf ==
    /\ document = <<>>
    /\ url = ""
    /\ pc = "buffer"
    /\ content_element = 0
    /\ stack = <<>>
    /\ output \in Buffers(MaxBufLen)
    /\ base_url = None
    /\ image_count = 0
    /\ list_depth = 0
    /\ in_pre = FALSE
    /\ last_was_block = TRUE
    /\ fetched = <<>>
    /\ visited = <<>>
    /\ renders = <<>>
    /\ input = None
    /\ result = None
    /\ app = None
    /\ history = <<>>
    /\ code = None

BufPcs == {"buffer", "ensure_newline", "ensure_newline_again",
           "ensure_blank_line", "ensure_blank_line_again"}

CallEnsureNewline ==
    /\ pc \in BufPcs
    /\ output' = ensure_newline(output)
    /\ pc' = (IF pc \in {"ensure_newline", "ensure_newline_again"}
              THEN "ensure_newline_again" ELSE "ensure_newline")
    /\ UNCHANGED <<document, url, content_element, stack, base_url, image_count,
                   list_depth, in_pre, last_was_block, fetched, visited, renders,
                   input, result, app, history, code>>

CallEnsureBlankLine ==
    /\ pc \in BufPcs
    /\ output' = ensure_blank_line(output)
    /\ pc' = (IF pc \in {"ensure_blank_line", "ensure_blank_line_again"}
              THEN "ensure_blank_line_again" ELSE "ensure_blank_line")
    /\ UNCHANGED <<document, url, content_element, stack, base_url, image_count,
                   list_depth, in_pre, last_was_block, fetched, visited, renders,
                   input, result, app, history, code>>

NextBuf == CallEnsureNewline \/ CallEnsureBlankLine

SpecBuf == InitBuf /\ [][NextBuf]_vars

(***************************************************************************)
(* SpecPre: documents of pre and code elements, nested in every way,       *)
(* around text with whitespace to collapse.                                *)
(***************************************************************************)
PreTemplates ==
    { Element("pre", NoAttrs), Element("code", NoAttrs), Element("p", NoAttrs),
      Text(" a  b "), Text("a") }

MaxPreNodes == 3

InitPre == InitWith(PreTemplates, {PlainBody}, {PageUrl}, MaxPreNodes)

SpecPre == InitPre /\ [][Next]_vars

(***************************************************************************)
(* SpecQuote: documents of blockquotes, nested or not, around paragraphs,  *)
(* line breaks, emphasis and text.                                         *)
(***************************************************************************)
QuoteTemplates ==
    { Element("blockquote", NoAttrs), Element("p", NoAttrs), Element("br", NoAttrs),
      Element("strong", NoAttrs), Text("a") }

MaxQuoteNodes == 3

InitQuote == InitWith(QuoteTemplates, {PlainBody}, {PageUrl}, MaxQuoteNodes)

SpecQuote == InitQuote /\ [][Next]_vars

(***************************************************************************)
(* Specifications of single calls: Init draws the arguments, the one       *)
(* action calls the function and keeps what it returned.                   *)
(***************************************************************************)
InitCall(inputs) ==
    /\ document = <<>>
    /\ url = ""
    /\ pc = "call"
    /\ content_element = 0
    /\ stack = <<>>
    /\ output = ""
    /\ base_url = None
    /\ image_count = 0
    /\ list_depth = 0
    /\ in_pre = FALSE
    /\ last_was_block = TRUE
    /\ fetched = <<>>
    /\ visited = <<>>
    /\ renders = <<>>
    /\ input \in inputs
    /\ result = None
    /\ app = None
    /\ history = <<>>
    /\ code = None

Return(value) ==
    /\ pc = "call"
    /\ pc' = "returned"
    /\ result' = Some(value)
    /\ UNCHANGED <<document, url, content_element, stack, output, base_url, image_count,
                   list_depth, in_pre, last_was_block, fetched, visited, renders, input, app, history, code>>

(***************************************************************************)
(* SpecFilter: should_render_image on srcs put together from a prefix, a   *)
(* stem and a suffix, in lower, upper and mixed case.                      *)
(***************************************************************************)
SrcPrefixes ==
    {"https://x.com/", "data:image/png;base64,", "DATA:", "x/data:",
     "http://x.com/static/", "http://x.com/STATIC/", "static/", ""}

SrcStems ==
    {"icon", "avatar", "sprite", "tracking", "pixel", "1x1", "badge", "button",
     "arrow", "spacer", "widget", "logo", "spinner", "loading",
     "ICON", "Logo", "1X1", "icon-small", "photo", "AAA", "p", "ico", "load", ""}

SrcSuffixes == {".jpg", ".png", ".svg", ".gif", ".SVG", ".Gif", ".svg?x=1", ".gift", ""}

FilterSrcs == {a \o b \o c : a \in SrcPrefixes, b \in SrcStems, c \in SrcSuffixes}

InitFilter == InitCall(FilterSrcs)

CallShouldRenderImage == Return(should_render_image(input))

NextFilter == CallShouldRenderImage

SpecFilter == InitFilter /\ [][NextFilter]_vars

(***************************************************************************)
(* SpecAscii: image_to_ascii on decoded pictures of many sizes (narrow,    *)
(* flat, tall, wider than max_width) and on bytes that do not decode.      *)
(***************************************************************************)
SrcWidths == {1, 9, 10, 11, 12, 30, 59, 60, 61, 100, 1000}

MaxSrcHeight == 110

SrcHeights == 1..MaxSrcHeight \cup {500}

MaxWidths == {9, 10, 12, IMAGE_MAX_WIDTH}

AsciiInputs ==
    { [image_bytes |-> ImageBytes(2000, TRUE, w, h, 128), max_width |-> m] :
        w \in SrcWidths, h \in SrcHeights, m \in MaxWidths }
    \cup { [image_bytes |-> ImageBytes(2000, FALSE, 1, 1, 0), max_width |-> IMAGE_MAX_WIDTH] }

InitAscii == InitCall(AsciiInputs)

CallImageToAscii == Return(image_to_ascii(input.image_bytes, input.max_width))

NextAscii == CallImageToAscii

SpecAscii == InitAscii /\ [][NextAscii]_vars

(***************************************************************************)
(* SpecTerm: the walk runs to its end.  Documents of lists, list items     *)
(* (inside and outside a list), blockquotes, images and text.  The program *)
(* is sequential and a fetch returns within its timeout, so a step that    *)
(* can be taken is taken: the walk does not stop before pc = "done".  A    *)
(* step of Next can be taken exactly when pc # "done", and every step of   *)
(* Next changes pc or the stack, so Progress is WF_vars(Next) written      *)
(* without ENABLED and without Next.                                       *)
(***************************************************************************)
TermTemplates ==
    { Element("ul", NoAttrs), Element("li", NoAttrs), Element("blockquote", NoAttrs),
      ImgOk, Text("a") }

MaxTermNodes == 3

InitTerm == InitWith(TermTemplates, {PlainBody}, {PageUrl}, MaxTermNodes)

Progress == <>[](pc = "done") \/ []<><<TRUE>>_<<pc, stack>>

SpecTerm == InitTerm /\ [][Next]_vars /\ Progress

(***************************************************************************)
(* SpecFresh: several calls of extract_content_with_images, one after the  *)
(* other.  When a call has returned, the renderer it leaves behind is      *)
(* dropped; the variables keep its fields until the next call constructs   *)
(* its own.                                                                *)
(***************************************************************************)
FreshTemplates == {ImgOk, Text("a")}

MaxFreshNodes == 1

MaxRenders == 3

\* the next call: any document, any page URL
NewRender ==
    /\ pc = "done"
    /\ Len(renders) < MaxRenders
    /\ \E n \in 0..MaxFreshNodes : \E shape \in Shapes(n) :
          \E nodes \in [1..n -> FreshTemplates] :
             /\ ShapeFits(shape, nodes)
             /\ document' = BuildDocument(PlainBody, shape, nodes)
    /\ url' \in {PageUrl}
    /\ pc' = "start"
    /\ fetched' = <<>>
    /\ visited' = <<>>
    /\ UNCHANGED <<content_element, stack, output, base_url, image_count, list_depth,
                   in_pre, last_was_block, renders, input, result, app, history, code>>

InitFresh == InitWith(FreshTemplates, {PlainBody}, {PageUrl}, MaxFreshNodes)

NextFresh == ExtractContent \/ RenderChild \/ ReturnElement \/ Finish \/ NewRender

SpecFresh == InitFresh /\ [][NextFresh]_vars

(***************************************************************************)
(* SpecAlt: documents of admissible images that differ in their alt text   *)
(* (absent, empty, short, 99 and 100 letters, and 34 arrows, which are 34  *)
(* characters in 102 bytes), and text.                                     *)
(***************************************************************************)
ImgSrcOnly == Element("img", [src |-> "http://x.com/p.jpg"])
ImgAltEmpty == Element("img", [src |-> "http://x.com/p.jpg", alt |-> ""])
ImgAlt99 == Element("img", [src |-> "http://x.com/p.jpg", alt |-> Repeat("a", 99)])
ImgAlt100 == Element("img", [src |-> "http://x.com/p.jpg", alt |-> Repeat("a", 100)])
ImgAltWide == Element("img", [src |-> "http://x.com/p.jpg", alt |-> Repeat(GLYPH_ARROW, 34)])

AltTemplates == {ImgOk, ImgSrcOnly, ImgAltEmpty, ImgAlt99, ImgAlt100, ImgAltWide, Text("a")}

MaxAltNodes == 2

InitAlt == InitWith(AltTemplates, {PlainBody}, {PageUrl}, MaxAltNodes)

SpecAlt == InitAlt /\ [][Next]_vars

(***************************************************************************)
(* SpecFetch: fetch_image_as_ascii in its two steps, the checks of the     *)
(* response and the call of the converter, on answers of many content      *)
(* types and body lengths, on a failed send and on a URL that is none.     *)
(***************************************************************************)
ContentTypes ==
    {"image/png", "image/jpeg", "image/svg+xml", "image/gif", "image/x-gif; q=1",
     "text/html", "", "image", "IMAGE/PNG", "image/GIF", "application/image/png"}

BodyLens == {0, 999, 1000, 1001, 2000}

FetchInputs ==
    { [image_url |-> u,
       response |-> Response(sent, ct, ImageBytes(len, dec, w, 10, 128)),
       max_width |-> IMAGE_MAX_WIDTH] :
        u \in {"http://x.com/p.jpg", "pics/p.jpg"}, sent \in BOOLEAN,
        ct \in ContentTypes, len \in BodyLens, dec \in BOOLEAN, w \in {8, 10} }

InitFetch == InitCall(FetchInputs)

\* lines 96-122: the request and the checks of the answer
FetchChecks ==
    /\ pc = "call"
    /\ IF ReachesConverter(input.image_url, input.response)
       THEN pc' = "convert" /\ result' = result
       ELSE pc' = "returned" /\ result' = Some(None)
    /\ UNCHANGED <<document, url, content_element, stack, output, base_url, image_count,
                   list_depth, in_pre, last_was_block, fetched, visited, renders, input, app, history, code>>

\* line 127: image_to_ascii(&bytes, max_width)
FetchConverts ==
    /\ pc = "convert"
    /\ pc' = "returned"
    /\ result' = Some(image_to_ascii(input.response.body, input.max_width))
    /\ UNCHANGED <<document, url, content_element, stack, output, base_url, image_count,
                   list_depth, in_pre, last_was_block, fetched, visited, renders, input, app, history, code>>

NextFetch == FetchChecks \/ FetchConverts

SpecFetch == InitFetch /\ [][NextFetch]_vars

(***************************************************************************)
(* SpecText: text in inline and block surroundings: after text, after a    *)
(* table cell (the buffer ends in a space), after a caption (it ends in a  *)
(* newline), in a paragraph and in a pre; texts of one word, of words      *)
(* between runs of blanks, tabs and newlines, and of whitespace only.      *)
(***************************************************************************)
TextTemplates ==
    { Element(t, NoAttrs) : t \in {"td", "figcaption", "span", "p", "pre"} }
    \cup {Text("a"), Text(" a  b "), Text("b\tc\n\nd"), Text(" \n\t ")}

MaxTextNodes == 3

InitText == InitWith(TextTemplates, {PlainBody}, {PageUrl}, MaxTextNodes)

SpecText == InitText /\ [][Next]_vars

(***************************************************************************)
(* SpecBlock: documents of the block containers, of elements that pass     *)
(* their children through (span has an arm, cite and main have none), of  *)
(* a line break and of text.                                               *)
(***************************************************************************)
BlockTemplates ==
    { Element(t, NoAttrs) :
        t \in {"p", "div", "section", "article", "span", "cite", "main", "br"} }
    \cup {Text("a")}

MaxBlockNodes == 3

InitBlock == InitWith(BlockTemplates, {PlainBody}, {PageUrl}, MaxBlockNodes)

SpecBlock == InitBlock /\ [][Next]_vars

(***************************************************************************)
(* SpecPass: documents of the six tags of the span arm, of tags no arm     *)
(* names (cite, x-note), of a paragraph and of text.                       *)
(***************************************************************************)
PassTemplates ==
    { Element(t, NoAttrs) :
        t \in {"span", "label", "time", "small", "sup", "sub", "cite", "x-note", "p"} }
    \cup {Text("a")}

MaxPassNodes == 3

InitPass == InitWith(PassTemplates, {PlainBody}, {PageUrl}, MaxPassNodes)

SpecPass == InitPass /\ [][Next]_vars

(***************************************************************************)
(* SpecLink: documents of links and text.  The hrefs: none, absolute ones  *)
(* of 14, 40 and 41 characters, one that names "javascript:" in its query, *)
(* relative ones (one of them starts with "http"), a fragment and a        *)
(* script.                                                                 *)
(***************************************************************************)
Href40 == "http://x.com/" \o Repeat("y", 27)

LinkHrefs ==
    {"http://x.com/y", Href40, Href40 \o "z", "https://x.com/?u=javascript:x",
     "/rel/y", "httpdocs/y", "#top", "javascript:void(0)"}

LinkTemplates ==
    { Element("a", [href |-> h]) : h \in LinkHrefs }
    \cup {Element("a", NoAttrs), Element("strong", NoAttrs), Text("a")}

MaxLinkNodes == 2

InitLink == InitWith(LinkTemplates, {PlainBody}, {PageUrl}, MaxLinkNodes)

SpecLink == InitLink /\ [][Next]_vars

(***************************************************************************)
(* SpecRamp: the glyph of a pixel, for every brightness a Luma<u8> pixel   *)
(* can have.                                                               *)
(***************************************************************************)
U8_MAX == 255

InitRamp == InitCall(0..U8_MAX)

\* lines 78-80: brightness -> char_index -> ASCII_CHARS[char_index]
CallCharIndex ==
    Return([char_index |-> CharIndex(input),
            glyph |-> ASCII_CHARS[CharIndex(input) + 1]])

NextRamp == CallCharIndex

SpecRamp == InitRamp /\ [][NextRamp]_vars

(***************************************************************************)
(* The terminal application: App, its methods, the history file and the    *)
(* event loop run_app.                                                     *)
(*   app: [results, list_state, view, query, should_quit, page_content,    *)
(*         page_scroll, page_title, page_url, search_input,                *)
(*         cursor_position]                                                *)
(* list_state is ListState::selected(), an Option of a 0-based index;      *)
(* page_content is the sequence of the page's lines; cursor_position is a  *)
(* byte offset into search_input, as in the program.  pc is "loop" while   *)
(* run_app loops, "exited" after it returned Ok(Ok(())), "failed" after it *)
(* returned the error of search, "panicked" after a panic.                 *)
(***************************************************************************)
SearchResult(title, result_url) == [title |-> title, url |-> result_url]

\* lines 214-232
NewApp(results, query) ==
    [results |-> results,
     list_state |-> IF results # <<>> THEN Some(0) ELSE None,
     view |-> "SearchResults",
     query |-> query,
     should_quit |-> FALSE,
     page_content |-> <<>>,
     page_scroll |-> 0,
     page_title |-> "",
     page_url |-> "",
     search_input |-> "",
     cursor_position |-> 0]

\* lines 234-248
new_home ==
    [results |-> <<>>,
     list_state |-> None,
     view |-> "Home",
     query |-> "",
     should_quit |-> FALSE,
     page_content |-> <<>>,
     page_scroll |-> 0,
     page_title |-> "",
     page_url |-> "",
     search_input |-> "",
     cursor_position |-> 0]

\* str::is_char_boundary: idx is the byte offset of a character or the end
IsCharBoundary(s, idx) == \E k \in 0..Len(s) : ByteLen(SubSeq(s, 1, k)) = idx

\* the number of characters before the byte offset idx
CharsBefore(s, idx) == CHOOSE k \in 0..Len(s) : ByteLen(SubSeq(s, 1, k)) = idx

\* String::insert panics unless idx is a char boundary
insert_char_panics(a) == ~IsCharBoundary(a.search_input, a.cursor_position)

\* lines 250-253
insert_char(a, c) ==
    LET k == CharsBefore(a.search_input, a.cursor_position)
    IN  [a EXCEPT !.search_input = SubSeq(@, 1, k) \o c \o SubSeq(@, k + 1, Len(@)),
                  !.cursor_position = @ + 1]

\* String::remove panics unless idx is the byte offset of a character
delete_char_panics(a) ==
    /\ a.cursor_position > 0
    /\ \/ a.cursor_position - 1 >= ByteLen(a.search_input)
       \/ ~IsCharBoundary(a.search_input, a.cursor_position - 1)

\* lines 255-260
delete_char(a) ==
    IF a.cursor_position > 0
    THEN LET k == CharsBefore(a.search_input, a.cursor_position - 1)
         IN  [a EXCEPT !.cursor_position = @ - 1,
                       !.search_input = SubSeq(@, 1, k) \o SubSeq(@, k + 2, Len(@))]
    ELSE a

\* lines 262-266
move_cursor_left(a) ==
    IF a.cursor_position > 0 THEN [a EXCEPT !.cursor_position = @ - 1] ELSE a

\* lines 268-272
move_cursor_right(a) ==
    IF a.cursor_position < ByteLen(a.search_input)
    THEN [a EXCEPT !.cursor_position = @ + 1] ELSE a

next_NeverWraps(a) ==
    IF a.results = <<>> THEN a
    ELSE [a EXCEPT !.list_state = IF IsSome(@) THEN Some(Unwrap(@) + 1) ELSE Some(0)]

\* lines 274-289
next(a) ==
    IF a.results = <<>> THEN a
    ELSE [a EXCEPT !.list_state =
            IF IsSome(@)
            THEN (IF Unwrap(@) >= Len(a.results) - 1 THEN Some(0) ELSE Some(Unwrap(@) + 1))
            ELSE Some(0)]

\* lines 291-306
previous(a) ==
    IF a.results = <<>> THEN a
    ELSE [a EXCEPT !.list_state =
            IF IsSome(@)
            THEN (IF Unwrap(@) = 0 THEN Some(Len(a.results) - 1) ELSE Some(Unwrap(@) - 1))
            ELSE Some(0)]

PAGE_MARGIN == 10

scroll_down_NeverClamps(a, amount) == [a EXCEPT !.page_scroll = @ + amount]

\* lines 308-314
scroll_down(a, amount) ==
    IF a.page_scroll + amount < SaturatingSub(Len(a.page_content), PAGE_MARGIN)
    THEN [a EXCEPT !.page_scroll = @ + amount]
    ELSE [a EXCEPT !.page_scroll = SaturatingSub(Len(a.page_content), PAGE_MARGIN)]

\* lines 316-318
scroll_up(a, amount) == [a EXCEPT !.page_scroll = SaturatingSub(@, amount)]

HISTORY_CAP == 100

\* Local::now(): later than the time of every entry of the file
Now(entries) == IF entries = <<>> THEN 1 ELSE entries[1].timestamp + 1

\* lines 147-157: the entries of the file, or none when the file could not
\* be read or parsed (unwrap_or_default)
load_history(entries, loaded) == IF loaded THEN entries ELSE <<>>

\* fs::write, whose error save_history drops: the file is written, or it is
\* left as it was (it could not be opened), or it was cut on opening and the
\* writing failed, after which it holds nothing load_history can parse
WriteOutcomes == {"written", "refused", "cut"}

\* lines 159-164: the file after save_history
save_history(entries, saved, written) ==
    CASE written = "written" -> saved
      [] written = "refused" -> entries
      [] written = "cut" -> <<>>

\* lines 166-180: the file after add_to_history; now is Local::now()
add_to_history(entries, query, title, result_url, now, loaded, written) ==
    LET inserted == <<[query |-> query, title |-> title, url |-> result_url,
                       timestamp |-> now]>> \o load_history(entries, loaded)
    IN  save_history(entries, SubSeq(inserted, 1, Min(Len(inserted), HISTORY_CAP)),
                     written)

\* lines 320-345 without the history: page is what fetch_page returned
open_selected(a, page) ==
    IF IsSome(a.list_state) /\ Unwrap(a.list_state) < Len(a.results)
       /\ a.results[Unwrap(a.list_state) + 1].url # ""
    THEN [a EXCEPT !.page_title = a.results[Unwrap(a.list_state) + 1].title,
                   !.page_url = a.results[Unwrap(a.list_state) + 1].url,
                   !.page_scroll = 0,
                   !.page_content = IF page.ok THEN page.lines
                                    ELSE <<"Failed to load page.">>,
                   !.view = "WebPage"]
    ELSE a

\* line 331: the file after open_selected
open_selected_history(a, entries, loaded, written) ==
    IF IsSome(a.list_state) /\ Unwrap(a.list_state) < Len(a.results)
       /\ a.results[Unwrap(a.list_state) + 1].url # ""
    THEN add_to_history(entries, a.query, a.results[Unwrap(a.list_state) + 1].title,
                        a.results[Unwrap(a.list_state) + 1].url, Now(entries),
                        loaded, written)
    ELSE entries

\* lines 347-351
back_to_results(a) ==
    [a EXCEPT !.view = "SearchResults", !.page_content = <<>>, !.page_scroll = 0]

(***************************************************************************)
(* What the screens say about the keys: the footer of the result list and  *)
(* the KEYBINDINGS of the About screen.                                    *)
(***************************************************************************)
\* line 917
ResultsLegend ==
    { [key |-> "Up", does |-> "Navigate"], [key |-> "Down", does |-> "Navigate"],
      [key |-> "j", does |-> "Navigate"], [key |-> "k", does |-> "Navigate"],
      [key |-> "Enter", does |-> "Open"], [key |-> "q", does |-> "Quit"] }

\* lines 1281-1286
AboutKeybindings ==
    { [key |-> "Up", does |-> "Navigate / Scroll"], [key |-> "Down", does |-> "Navigate / Scroll"],
      [key |-> "j", does |-> "Navigate / Scroll"], [key |-> "k", does |-> "Navigate / Scroll"],
      [key |-> "Enter", does |-> "Open selected result"],
      [key |-> "Right", does |-> "Open selected result"],
      [key |-> "Left", does |-> "Go back"], [key |-> "Esc", does |-> "Go back"],
      [key |-> " ", does |-> "Page down"], [key |-> "b", does |-> "Page up"],
      [key |-> "g", does |-> "Jump to top"], [key |-> "G", does |-> "Jump to bottom"],
      [key |-> "q", does |-> "Quit"] }

(***************************************************************************)
(* The key events and the answers of the network.  A key is the name of a  *)
(* KeyCode, or the character of a KeyCode::Char.                           *)
(***************************************************************************)
NamedKeys ==
    {"Esc", "Enter", "Backspace", "Left", "Right", "Up", "Down", "PageUp", "PageDown",
     "Home", "End", "Tab"}

IsChar(key) == key \notin NamedKeys

\* the characters typed on the home screen: q, and one that takes three bytes
TypedChars == {"q", GLYPH_ARROW}

\* the characters the two other views have arms for, and one they have none for
CommandChars == {"q", "j", "k", "l", "h", " ", "d", "b", "u", "g", "G", "x"}

\* what search returned: ok, or an error
Found(ok, results) == [ok |-> ok, results |-> results]

SearchAnswers ==
    { Found(FALSE, <<>>), Found(TRUE, <<>>),
      Found(TRUE, <<SearchResult("t", "http://x.com/a"), SearchResult("u", ""),
                    SearchResult("v", "http://x.com/b")>>) }

\* what fetch_page returned: the rendered page, or an error
Page(ok, n) == [ok |-> ok, lines |-> [i \in 1..n |-> "line"]]

PageAnswers == {Page(FALSE, 0), Page(TRUE, 11), Page(TRUE, 31)}

MaxInputLen == 1
MaxOpens == 1

\* what a handler leaves: the App and how the iteration of the loop ends
Handled(a) == [app |-> a, status |-> "ok"]
Failed(a) == [app |-> a, status |-> "failed"]
Panicked(a) == [app |-> a, status |-> "panicked"]

\* lines 1107-1149
HandleHome(a, key, found) ==
    CASE key = "Esc" -> Handled([a EXCEPT !.should_quit = TRUE])
      [] key = "q" /\ a.search_input = "" -> Handled([a EXCEPT !.should_quit = TRUE])
      [] key = "Enter" ->
            IF a.search_input = "" THEN Handled(a)
            ELSE IF ~found.ok THEN Failed(a)
            ELSE IF found.results = <<>> THEN Handled(a)
            ELSE Handled([a EXCEPT !.results = found.results,
                                   !.query = a.search_input,
                                   !.list_state = Some(0),
                                   !.view = "SearchResults"])
      [] IsChar(key) /\ ~(key = "q" /\ a.search_input = "") ->
            IF insert_char_panics(a) THEN Panicked(a) ELSE Handled(insert_char(a, key))
      [] key = "Backspace" ->
            IF delete_char_panics(a) THEN Panicked(a) ELSE Handled(delete_char(a))
      [] key = "Left" -> Handled(move_cursor_left(a))
      [] key = "Right" -> Handled(move_cursor_right(a))
      [] OTHER -> Handled(a)

\* line 1163: the keys of the arm that calls open_selected
OpenKeys == {"Enter", "l", "Right"}

HandleSearchResults_EscIgnored(a, key, page) ==
    CASE key = "q" -> [a EXCEPT !.view = "Home", !.results = <<>>]
      [] key \in {"j", "Down"} -> next(a)
      [] key \in {"k", "Up"} -> previous(a)
      [] key \in OpenKeys -> open_selected(a, page)
      [] OTHER -> a

\* lines 1151-1167
HandleSearchResults(a, key, page) ==
    CASE key \in {"q", "Esc"} -> [a EXCEPT !.view = "Home", !.results = <<>>]
      [] key \in {"j", "Down"} -> next(a)
      [] key \in {"k", "Up"} -> previous(a)
      [] key \in OpenKeys -> open_selected(a, page)
      [] OTHER -> a

\* lines 1169-1192
HandleWebPage(a, key) ==
    CASE key \in {"q", "Esc", "h", "Left"} -> back_to_results(a)
      [] key \in {"j", "Down"} -> scroll_down(a, 1)
      [] key \in {"k", "Up"} -> scroll_up(a, 1)
      [] key \in {" ", "d", "PageDown"} -> scroll_down(a, 20)
      [] key \in {"b", "u", "PageUp"} -> scroll_up(a, 20)
      [] key \in {"g", "Home"} -> [a EXCEPT !.page_scroll = 0]
      [] key \in {"G", "End"} ->
            [a EXCEPT !.page_scroll = SaturatingSub(Len(a.page_content), PAGE_MARGIN)]
      [] OTHER -> a

\* lines 1197-1199: the check that ends the loop
AfterKey(a) == IF a.should_quit THEN "exited" ELSE "loop"

RendererIdle ==
    UNCHANGED <<document, url, content_element, stack, output, base_url, image_count,
                list_depth, in_pre, last_was_block, fetched, visited, renders, input,
                result>>

\* one iteration of the loop with a key event, the view being Home
HomeKey ==
    /\ pc = "loop"
    /\ app.view = "Home"
    /\ \E key \in NamedKeys \cup TypedChars :
       \E found \in IF key = "Enter" THEN SearchAnswers ELSE {Found(FALSE, <<>>)} :
          /\ IsChar(key) => Len(app.search_input) < MaxInputLen
          /\ LET handled == HandleHome(app, key, found)
             IN  /\ app' = handled.app
                 /\ pc' = IF handled.status = "ok" THEN AfterKey(handled.app)
                          ELSE handled.status
          /\ code' = Some(key)
    /\ UNCHANGED history
    /\ RendererIdle

\* one iteration of the loop with a key event, the view being SearchResults
SearchResultsKey ==
    /\ pc = "loop"
    /\ app.view = "SearchResults"
    /\ \E key \in NamedKeys \cup CommandChars :
       \E page \in IF key \in OpenKeys THEN PageAnswers ELSE {Page(FALSE, 0)},
          loaded \in IF key \in OpenKeys THEN BOOLEAN ELSE {TRUE},
          written \in IF key \in OpenKeys THEN WriteOutcomes ELSE {"written"} :
          /\ key \in OpenKeys => Now(history) <= MaxOpens
          /\ app' = HandleSearchResults(app, key, page)
          /\ history' = IF key \in OpenKeys
                        THEN open_selected_history(app, history, loaded, written)
                        ELSE history
          /\ pc' = AfterKey(app')
          /\ code' = Some(key)
    /\ RendererIdle

\* one iteration of the loop with a key event, the view being WebPage
WebPageKey ==
    /\ pc = "loop"
    /\ app.view = "WebPage"
    /\ \E key \in NamedKeys \cup CommandChars :
          /\ app' = HandleWebPage(app, key)
          /\ pc' = AfterKey(app')
          /\ code' = Some(key)
    /\ UNCHANGED history
    /\ RendererIdle

\* main, lines 1479 and 1507-1522: the home screen, or the results of the
\* query of the command line when there are some
InitApp ==
    /\ document = <<>>
    /\ url = ""
    /\ pc = "loop"
    /\ content_element = 0
    /\ stack = <<>>
    /\ output = ""
    /\ base_url = None
    /\ image_count = 0
    /\ list_depth = 0
    /\ in_pre = FALSE
    /\ last_was_block = TRUE
    /\ fetched = <<>>
    /\ visited = <<>>
    /\ renders = <<>>
    /\ input = None
    /\ result = None
    /\ app \in {new_home}
               \cup {NewApp(found.results, "x") :
                        found \in {f \in SearchAnswers : f.ok /\ f.results # <<>>}}
    /\ history = <<>>
    /\ code = None

NextApp == HomeKey \/ SearchResultsKey \/ WebPageKey

SpecApp == InitApp /\ [][NextApp]_vars

(***************************************************************************)
(* SpecHist: add_to_history called again and again on the history file,    *)
(* more often than the file keeps entries.  input holds the arguments of   *)
(* the last call and the reading of the clock (the number of the call),    *)
(* result what happened to the file in it and how many reads and writes    *)
(* have failed so far.                                                     *)
(***************************************************************************)
MaxCalls == 102
MaxIoFailures == 1

OpenedPage == [query |-> "x", title |-> "t", url |-> "http://x.com/a", now |-> 0]

InitHist == InitCall({OpenedPage})

IoFailures == IF IsSome(result) THEN Unwrap(result).failures ELSE 0

AddToHistory ==
    /\ pc \in {"call", "returned"}
    /\ input.now < MaxCalls
    /\ \E loaded \in BOOLEAN, written \in WriteOutcomes :
          LET failures == IoFailures + (IF loaded THEN 0 ELSE 1)
                                     + (IF written = "written" THEN 0 ELSE 1)
          IN  /\ failures <= MaxIoFailures
              /\ history' = add_to_history(history, input.query, input.title, input.url,
                                            input.now + 1, loaded, written)
              /\ input' = [input EXCEPT !.now = @ + 1]
              /\ result' = Some([loaded |-> loaded, written |-> written,
                                  failures |-> failures])
              /\ pc' = "returned"
    /\ UNCHANGED <<document, url, content_element, stack, output, base_url, image_count,
                   list_depth, in_pre, last_was_block, fetched, visited, renders, app,
                   code>>

NextHist == AddToHistory

SpecHist == InitHist /\ [][NextHist]_vars

(***************************************************************************)
(* SpecMark: the elements that wrap their children in a marker pair        *)
(* (strong, b, em, i, code), first in the page, after text, in a paragraph *)
(* and inside one another.                                                 *)
(***************************************************************************)
MarkTemplates ==
    { Element(t, NoAttrs) : t \in {"strong", "b", "em", "i", "code", "p"} }
    \cup {Text("a")}

MaxMarkNodes == 3

InitMark == InitWith(MarkTemplates, {PlainBody}, {PageUrl}, MaxMarkNodes)

SpecMark == InitMark /\ [][Next]_vars

(***************************************************************************)
(* SpecLazy: images whose source is in src, data-src or data-lazy-src, in  *)
(* one of them or in two, with a src the admission filter rejects beside   *)
(* a data-src it admits.                                                   *)
(***************************************************************************)
MaxLazyNodes == 2

InitLazy == InitWith(LazyTemplates, {PlainBody}, {PageUrl}, MaxLazyNodes)

SpecLazy == InitLazy /\ [][Next]_vars

(***************************************************************************)
(* Vocabulary of the properties.                                           *)
(***************************************************************************)
\* the walk is about to handle this child of the element on top
AtChild == pc = "render" /\ stack # <<>> /\ Top.rest # <<>>
NextChild == document[Head(Top.rest)]

\* the top border of an image block of the model (every block is 10 wide)
ImageBlockTop == GLYPH_TOPLEFT \o Repeat(GLYPH_LIGHT, 10) \o GLYPH_TOPRIGHT

ImageBlocks(out) ==
    Cardinality({i \in 1..(Len(out) - Len(ImageBlockTop) + 1) :
                    SubSeq(out, i, i + Len(ImageBlockTop) - 1) = ImageBlockTop})

AdmissibleImages ==
    {j \in 1..Len(document) :
        /\ document[j].kind = "element" /\ document[j].tag = "img"
        /\ IsSome(Attr(document[j], "src"))
        /\ should_render_image(Unwrap(Attr(document[j], "src")))}

\* the step issued a fetch, and what it was
Fetching == fetched' # fetched
LastFetch == fetched'[Len(fetched')]

(***************************************************************************)
(* C1. In every state of a render image_count <= max_images = 3, and the   *)
(* output holds at most 3 image blocks, also for a tree of 4 or more       *)
(* admissible images.                                                      *)
(***************************************************************************)
C1_ImageCap ==
    /\ max_images = 3
    /\ image_count <= max_images
    /\ pc = "done" => ImageBlocks(output) <= 3

C1_Witness ==
    /\ pc = "done"
    /\ Cardinality(AdmissibleImages) >= 4
    /\ image_count = 3
    /\ ImageBlocks(output) = 3

(***************************************************************************)
(* C2. The output never holds three or more newlines in a row.             *)
(***************************************************************************)
C2_NoTripleNewline == ~Contains(output, NL \o NL \o NL)

(***************************************************************************)
(* C3. list_depth is never negative, it is the number of ul/ol elements    *)
(* being rendered (so it is back at its earlier value when a list has      *)
(* finished), and it is 0 when render has returned.                        *)
(***************************************************************************)
OpenLists ==
    {k \in DOMAIN stack :
        stack[k].node # 0 /\ document[stack[k].node].tag \in {"ul", "ol"}}

C3_ListDepthBalanced ==
    /\ list_depth >= 0
    /\ pc = "render" => list_depth = Cardinality(OpenLists)
    /\ pc = "done" => list_depth = 0

C3_Witness ==
    /\ pc = "done"
    /\ list_depth = 0
    /\ \E i, j \in 1..Len(document) :
          /\ document[i].tag \in {"ul", "ol"} /\ document[j].tag \in {"ul", "ol"}
          /\ IsAncestor(document, i, j)

(***************************************************************************)
(* C4. Rendering an element with an excluded tag, or whose class holds a   *)
(* denylist token, changes no field of the renderer, visits none of its    *)
(* descendants and issues no fetch.                                        *)
(***************************************************************************)
ExcludedTags ==
    {"script", "style", "nav", "header", "footer", "aside", "noscript", "iframe", "form"}

DenylistTokens ==
    {"hidden", "sidebar", "nav", "menu", "footer", "header", "advertisement", "ad-"}

Excluded(node) ==
    /\ node.kind = "element"
    /\ \/ node.tag \in ExcludedTags
       \/ /\ IsSome(Attr(node, "class"))
          /\ \E t \in DenylistTokens : Contains(ToLowercase(Unwrap(Attr(node, "class"))), t)

\* a node below an excluded element of the rendered subtree
UnderExcluded(j) ==
    \E a \in 1..Len(document) :
        /\ Excluded(document[a])
        /\ a = j \/ IsAncestor(document, a, j)
        /\ stack # <<>> /\ a \in Subtree(document, Head(stack[1].rest))

C4_ExcludedStep ==
    (AtChild /\ Excluded(NextChild)) =>
        /\ output' = output /\ image_count' = image_count /\ list_depth' = list_depth
        /\ in_pre' = in_pre /\ last_was_block' = last_was_block /\ base_url' = base_url
        /\ fetched' = fetched
        /\ stack' = Advance(stack)

C4_ExcludedSkipped ==
    /\ [][C4_ExcludedStep]_vars
    /\ [](pc = "render" =>
            /\ \A k \in DOMAIN stack : stack[k].node # 0 => ~UnderExcluded(stack[k].node)
            /\ \A k \in DOMAIN fetched : ~UnderExcluded(fetched[k].node))

C4_Witness ==
    /\ pc = "done"
    /\ output = ""
    /\ fetched = <<>>
    /\ \E a, j \in 3..Len(document) :
          /\ Excluded(document[a]) /\ document[j].parent = a /\ j \in AdmissibleImages

(***************************************************************************)
(* C5. An img element that is not rendered, whatever the reason, leaves    *)
(* the output, image_count and last_was_block as they were.                *)
(***************************************************************************)
AtImage == AtChild /\ NextChild.kind = "element" /\ NextChild.tag = "img"

\* the step rendered the image: its fetch was issued and returned a block
ImageRendered == Fetching /\ LastFetch.ok

C5_SkippedImageStep ==
    (AtImage /\ ~ImageRendered) =>
        /\ output' = output
        /\ image_count' = image_count
        /\ last_was_block' = last_was_block

C5_SkippedImageSilent == [][C5_SkippedImageStep]_vars

\* a render after which nothing was rendered although the document holds an
\* image whose fetch failed, one the filter rejects, one without src and a
\* relative one that had no base to resolve against
C5_Witness ==
    /\ pc = "done"
    /\ base_url = None
    /\ image_count = 0 /\ output = "" /\ last_was_block
    /\ \E k \in DOMAIN fetched : ~fetched[k].ok
    /\ \E j \in 3..Len(document) : document[j] = [ImgIcon EXCEPT !.parent = 2]
    /\ \E j \in 3..Len(document) : document[j] = [ImgNoSrc EXCEPT !.parent = 2]
    /\ \E j \in 3..Len(document) : document[j] = [ImgRelative EXCEPT !.parent = 2]

(***************************************************************************)
(* C6. A render issues at most 3 fetch-and-convert calls, whatever the     *)
(* document and whatever the fetches return.                               *)
(***************************************************************************)
C6_AtMostThreeFetches == Len(fetched) <= 3

(***************************************************************************)
(* C7. Fetches are issued one at a time in document order, at most once    *)
(* per img element, only while image_count < max_images, and only for an   *)
(* img whose src passed the admission filter and resolved to an absolute   *)
(* URL.                                                                    *)
(***************************************************************************)
IsAbsoluteUrl(u) == StartsWith(u, "http://") \/ StartsWith(u, "https://")

C7_FetchStep ==
    Fetching =>
        /\ Len(fetched') = Len(fetched) + 1
        /\ SubSeq(fetched', 1, Len(fetched)) = fetched
        /\ AtImage /\ LastFetch.node = Head(Top.rest)
        /\ \A k \in DOMAIN fetched : fetched[k].node < LastFetch.node
        /\ image_count < max_images
        /\ IsSome(ImageSrc(NextChild))
        /\ should_render_image(Unwrap(ImageSrc(NextChild)))
        /\ IsAbsoluteUrl(LastFetch.url)

C7_FetchDiscipline == [][C7_FetchStep]_vars

\* the rest of C7 (order, once per element, cap, admission) without the
\* absolute URL
C7_FetchOrderStep ==
    Fetching =>
        /\ Len(fetched') = Len(fetched) + 1
        /\ SubSeq(fetched', 1, Len(fetched)) = fetched
        /\ AtImage /\ LastFetch.node = Head(Top.rest)
        /\ \A k \in DOMAIN fetched : fetched[k].node < LastFetch.node
        /\ image_count < max_images
        /\ IsSome(ImageSrc(NextChild))
        /\ should_render_image(Unwrap(ImageSrc(NextChild)))

C7_FetchOrder == [][C7_FetchOrderStep]_vars

(***************************************************************************)
(* C8. ensure_newline appends a newline, and nothing else, only to a       *)
(* buffer that is not empty and does not end in one; a second call in a    *)
(* row changes nothing.                                                    *)
(***************************************************************************)
C8_EnsureNewlineStep ==
    /\ pc' \in {"ensure_newline", "ensure_newline_again"} =>
          /\ output' # output =>
                output' = output \o NL /\ output # "" /\ ~EndsWith(output, NL)
          /\ output' # "" => EndsWith(output', NL)
    /\ pc' = "ensure_newline_again" => output' = output

C8_EnsureNewlineIdempotent == [][C8_EnsureNewlineStep]_vars

C8_Witness == pc = "ensure_newline_again" /\ output = "a a" \o NL

(***************************************************************************)
(* C9. ensure_blank_line is idempotent: a second call in a row changes     *)
(* nothing, for every buffer.                                              *)
(***************************************************************************)
C9_EnsureBlankLineStep == pc' = "ensure_blank_line_again" => output' = output

C9_EnsureBlankLineIdempotent == [][C9_EnsureBlankLineStep]_vars

(***************************************************************************)
(* C10. When no element qualifies under any pattern of the selector list   *)
(* and the body holds visible text, the output of the render is not empty. *)
(***************************************************************************)
\* a text node with a word in it, below the body and below no excluded
\* descendant of the body
VisibleText(j) ==
    /\ document[j].kind = "text"
    /\ SplitWhitespace(document[j].text) # <<>>
    /\ IsAncestor(document, 2, j)
    /\ \A a \in 3..Len(document) : IsAncestor(document, a, j) => ~Excluded(document[a])

C10_FallbackNonEmpty ==
    (pc = "done" /\ content_element = 0 /\ \E j \in 1..Len(document) : VisibleText(j))
        => output # ""

(***************************************************************************)
(* C11. The content root is a node of the earliest pattern of the          *)
(* selector list that has a matching node of more than 500 characters; the *)
(* fallback is used only when no pattern has such a node.                  *)
(***************************************************************************)
\* the nodes that match pattern k and are above the threshold
QualifyingMatches(d, k) ==
    {i \in 1..Len(d) : MatchesSelector(d, i, content_selectors[k]) /\ Qualifies(d, i)}

C11_EarliestQualifyingPattern ==
    pc # "start" =>
        LET K == {k \in DOMAIN content_selectors : QualifyingMatches(document, k) # {}}
        IN  IF K = {} THEN content_element = 0
            ELSE content_element
                    \in QualifyingMatches(document, CHOOSE k \in K : \A l \in K : k <= l)

(***************************************************************************)
(* C12. in_pre is true exactly while the children of a pre element are     *)
(* rendered (so a pre that finishes leaves the flag as it was before it    *)
(* started, whatever the nesting), and a text node below a pre element is  *)
(* appended verbatim.                                                      *)
(***************************************************************************)
\* render_children of some pre element is running
PreOpen ==
    \E k \in DOMAIN stack :
        stack[k].node # 0 /\ document[stack[k].node].tag = "pre"

C12_PreStep ==
    /\ pc' = "render" => in_pre' = PreOpen'
    /\ (AtChild /\ NextChild.kind = "text" /\ PreOpen)
          => output' = output \o NextChild.text

C12_PreformattedScope == [][C12_PreStep]_vars

(***************************************************************************)
(* C13. A heading h1..h6 opens with its tier's border glyphs appended to a *)
(* buffer that ends in a blank line, and when it finishes the buffer ends  *)
(* with the closing border glyphs and two newlines.                        *)
(***************************************************************************)
HeadingTags == {"h1", "h2", "h3", "h4", "h5", "h6"}

HeadingBorder(tag) ==
    CASE tag = "h1" -> Repeat(GLYPH_DOUBLE, 3)
      [] tag = "h2" -> Repeat(GLYPH_HEAVY, 2)
      [] tag = "h3" -> Repeat(GLYPH_LIGHT, 2)
      [] OTHER -> GLYPH_TRIANGLE

\* the buffer ends in an empty line
EndsInBlankLine(out) == out = NL \/ EndsWith(out, NL \o NL)

AtHeading ==
    AtChild /\ NextChild.kind = "element" /\ NextChild.tag \in HeadingTags
            /\ ~Excluded(NextChild)

HeadingReturns ==
    /\ pc = "render" /\ stack # <<>> /\ Top.rest = <<>> /\ Top.node # 0
    /\ document[Top.node].tag \in HeadingTags

C13_HeadingStep ==
    /\ AtHeading =>
          LET opening == HeadingBorder(NextChild.tag) \o " "
          IN  /\ EndsWith(output', opening)
              /\ EndsInBlankLine(SubSeq(output', 1, Len(output') - Len(opening)))
    /\ HeadingReturns =>
          EndsWith(output', " " \o HeadingBorder(document[Top.node].tag) \o NL \o NL)

C13_HeadingFramed == [][C13_HeadingStep]_vars

(***************************************************************************)
(* C14. What a blockquote leaves in the buffer is the buffer as it was     *)
(* when the children started, followed by the lines of the children        *)
(* rendered into an empty scratch buffer, each behind the quote marker.    *)
(* The scratch renderer may start at a block boundary or not.              *)
(***************************************************************************)
BlockquoteReturns ==
    /\ pc = "render" /\ stack # <<>> /\ Top.rest = <<>> /\ Top.node # 0
    /\ document[Top.node].tag = "blockquote"

ScratchRender(at_block) ==
    render_children([Self EXCEPT !.output = "", !.last_was_block = at_block],
                    document, Children(document, Top.node), NoArts).output

C14_BlockquoteStep ==
    BlockquoteReturns =>
        \E at_block \in BOOLEAN :
            output' = SubSeq(output, 1, Top.start_len)
                         \o QuoteLines(Lines(ScratchRender(at_block)))

C14_BlockquoteAsScratch == [][C14_BlockquoteStep]_vars

(***************************************************************************)
(* C15. The buffer is append-only: after every step of the walk the buffer *)
(* before the step is a prefix of the buffer after it.                     *)
(***************************************************************************)
C15_AppendStep == StartsWith(output', output)

C15_AppendOnly == [][C15_AppendStep]_vars

(***************************************************************************)
(* C16. should_render_image rejects exactly the srcs that, case ignored,   *)
(* start with "data:", contain a token of the denylist or end in ".svg"    *)
(* or ".gif", and admits every other src; it rejects                       *)
(* https://x.com/icon-small.png and data:image/png;base64,AAA and admits   *)
(* https://x.com/photo.jpg.                                                *)
(***************************************************************************)
SrcDenylist ==
    {"icon", "avatar", "sprite", "tracking", "pixel", "1x1", "badge", "button",
     "arrow", "spacer", "widget", "logo", "spinner", "loading", "/static/"}

RejectedSrc(src) ==
    LET lower == ToLowercase(src)
    IN  \/ StartsWith(lower, "data:")
        \/ \E token \in SrcDenylist : Contains(lower, token)
        \/ EndsWith(lower, ".svg")
        \/ EndsWith(lower, ".gif")

C16_AdmissionFilter ==
    pc = "returned" =>
        /\ result = Some(~RejectedSrc(input))
        /\ input = "https://x.com/icon-small.png" => result = Some(FALSE)
        /\ input = "https://x.com/photo.jpg" => result = Some(TRUE)
        /\ input = "data:image/png;base64,AAA" => result = Some(FALSE)

C16_Witness ==
    pc = "returned" /\ input = "https://x.com/Logo.png" /\ result = Some(FALSE)

(***************************************************************************)
(* Measures of an ASCII block: the length of a row between the borders,    *)
(* and the number of rows between the top and the bottom border.           *)
(***************************************************************************)
RECURSIVE IndexOf(_, _, _)
IndexOf(s, c, i) ==
    IF i > Len(s) THEN 0
    ELSE IF CharAt(s, i) = c THEN i
    ELSE IndexOf(s, c, i + 1)

BlockWidth(art) == IndexOf(art, GLYPH_TOPRIGHT, 1) - 3

BlockHeight(art) == (Len(art) - 1) \div (BlockWidth(art) + 3) - 2

Returned == pc = "returned"
ReturnedArt == Unwrap(result)

(***************************************************************************)
(* C17. A block the converter returns is min(max_width, source width)      *)
(* wide, and its height is the integer nearest to                          *)
(* new_width * source_height / source_width / 2.                           *)
(***************************************************************************)
Abs(n) == IF n < 0 THEN -n ELSE n

\* n is an integer nearest to num / den
Nearest(n, num, den) == 2 * Abs(n * den - num) <= den

C17_RoundedHeight ==
    (Returned /\ IsSome(ReturnedArt)) =>
        LET width == input.image_bytes.width
            height == input.image_bytes.height
            new_width == Min(input.max_width, width)
        IN  /\ BlockWidth(Unwrap(ReturnedArt)) = new_width
            /\ Nearest(BlockHeight(Unwrap(ReturnedArt)), new_width * height, 2 * width)

NoPanic ==
    /\ list_depth >= 0
    /\ \A k \in DOMAIN stack :
          (stack[k].node # 0 /\ document[stack[k].node].tag = "blockquote")
              => stack[k].start_len <= Len(output)

VisitedOnce ==
    /\ \A a, b \in DOMAIN visited : a # b => visited[a] # visited[b]
    /\ \A a \in DOMAIN visited : visited[a] \in 2..Len(document)

RenderReturned ==
    pc = "done" /\ Len(renders) = 1 /\ renders[1].output = output

RendererConstructed == pc = "render" /\ visited = <<>>

C20_FreshRenderer ==
    /\ RendererConstructed =>
          /\ output = "" /\ image_count = 0 /\ list_depth = 0
          /\ ~in_pre /\ last_was_block
    /\ \A a, b \in DOMAIN renders :
          (/\ renders[a].document = renders[b].document
           /\ renders[a].url = renders[b].url
           /\ renders[a].fetched = renders[b].fetched)
              => renders[a].output = renders[b].output

C20_Witness ==
    /\ Len(renders) = 3
    /\ renders[1].document = renders[3].document
    /\ renders[1].fetched = renders[3].fetched
    /\ renders[2].document # renders[1].document
    /\ renders[2].output # ""
    /\ renders[1].output = renders[3].output
    /\ Len(renders[1].output) > 1

(***************************************************************************)
(* C21. A step that rendered an img (its fetch returned an ASCII block)    *)
(* appends to the buffer, after at most a blank-line separation, the       *)
(* caption line "[Image: <alt>]" exactly when the alt attribute is         *)
(* present, non-empty and under 100 characters long, then the block        *)
(* verbatim, adds 1 to image_count and leaves a block boundary.            *)
(***************************************************************************)
\* the block every successful fetch of the model returns
FetchedArt == Unwrap(image_to_ascii(GoodBytes, IMAGE_MAX_WIDTH))

\* the caption the claim calls for: the length counted in characters
ClaimedCaption(node) ==
    LET alt == Attr(node, "alt")
    IN  IF IsSome(alt) /\ Unwrap(alt) # "" /\ Len(Unwrap(alt)) < 100
        THEN "[Image: " \o Unwrap(alt) \o "]" \o NL
        ELSE ""

C21_RenderedImageStep ==
    (AtImage /\ ImageRendered) =>
        /\ \E sep \in {"", NL, NL \o NL}, pad \in {"", NL} :
              output' = output \o sep \o ClaimedCaption(NextChild) \o FetchedArt \o pad
        /\ image_count' = image_count + 1
        /\ last_was_block'

C21_CaptionThenBlock == [][C21_RenderedImageStep]_vars

(***************************************************************************)
(* C22. fetch_image_as_ascii calls the converter on a response only if its *)
(* content-type starts with "image/", holds neither "svg" nor "gif", and   *)
(* its body is at least 1000 bytes long; in every other case (no response  *)
(* at all included) it returns none and the converter is not called.       *)
(***************************************************************************)
ConverterCalled == pc = "convert"

\* a response came back and it is one the claim lets through
FitForConverter ==
    /\ IsSome(UrlParse(input.image_url)) /\ input.response.sent
    /\ StartsWith(input.response.content_type, "image/")
    /\ ~Contains(input.response.content_type, "svg")
    /\ ~Contains(input.response.content_type, "gif")
    /\ input.response.body.len >= 1000

C22_FetchStep ==
    /\ ConverterCalled' => FitForConverter
    /\ (pc = "call" /\ pc' # "call" /\ ~FitForConverter) =>
          /\ ~ConverterCalled'
          /\ pc' = "returned" /\ result' = Some(None)
    /\ (pc = "returned" /\ ~FitForConverter) => result = Some(None)

C22_ConverterGated == [][C22_FetchStep]_vars

\* the converter is at work on a body of exactly 1000 bytes
C22_Witness ==
    /\ ConverterCalled
    /\ input.response.content_type = "image/jpeg"
    /\ input.response.body.len = 1000

(***************************************************************************)
(* C23. Outside preformatted mode a text child appends its words joined by *)
(* single spaces (no run of whitespace is left), preceded by one space     *)
(* exactly when the prior emission was inline, the buffer is not empty and *)
(* it ends neither in a space nor in a newline; afterwards the state is    *)
(* inline.  A text of whitespace only changes neither buffer nor flags.    *)
(***************************************************************************)
AtText == AtChild /\ NextChild.kind = "text"

Words == SplitWhitespace(NextChild.text)

NeedsSeparator ==
    /\ ~last_was_block
    /\ output # ""
    /\ CharAt(output, Len(output)) \notin {" ", NL}

Appended == SubSeq(output', Len(output) + 1, Len(output'))

C23_TextStep ==
    (AtText /\ ~in_pre) =>
        IF Words = <<>>
        THEN UNCHANGED <<output, last_was_block, in_pre, list_depth, image_count>>
        ELSE /\ output' = output \o (IF NeedsSeparator THEN " " ELSE "")
                                 \o JoinWith(Words, " ")
             /\ \A i \in 1..Len(Appended) :
                    /\ CharAt(Appended, i) \notin {NL, "\t", "\r"}
                    /\ i > 1 => ~(CharAt(Appended, i - 1) = " " /\ CharAt(Appended, i) = " ")
             /\ ~last_was_block'
             /\ UNCHANGED <<in_pre, list_depth, image_count>>

C23_TextCollapsed == [][C23_TextStep]_vars

\* the text " a  b " came after the text "a", and a text came after a table
\* cell that came after text
C23_Witness ==
    /\ pc = "done"
    /\ ~last_was_block
    /\ \/ output = "a a b"
       \/ output = "a " \o GLYPH_VBAR \o " a"

(***************************************************************************)
(* C24. The block containers (div, section, article, p and the fallback    *)
(* for a tag with no rule of its own) ensure a newline before their        *)
(* children and after them and leave a block boundary: after the opening   *)
(* the buffer is empty or ends in a newline, and when the element finishes *)
(* a non-empty buffer ends in a newline and last_was_block is true.        *)
(***************************************************************************)
BlockTags == {"div", "section", "article", "p"}

\* the tags render_element has an arm for
ArmTags ==
    {"p", "div", "section", "article", "br", "hr", "h1", "h2", "h3", "h4", "h5", "h6",
     "ul", "ol", "li", "pre", "code", "strong", "b", "em", "i", "a", "img", "figure",
     "figcaption", "blockquote", "table", "tr", "th", "td",
     "span", "label", "time", "small", "sup", "sub"}

Unrecognized(tag) == tag \notin ArmTags \cup ExcludedTags

AtElement == AtChild /\ NextChild.kind = "element" /\ ~Excluded(NextChild)

ElementReturns == pc = "render" /\ stack # <<>> /\ Top.rest = <<>> /\ Top.node # 0

ReturningTag == document[Top.node].tag

BlockContainerStep(tags) ==
    /\ (AtElement /\ NextChild.tag \in tags) =>
          (output' = "" \/ EndsWith(output', NL))
    /\ (ElementReturns /\ ReturningTag \in tags) =>
          /\ output' # "" => EndsWith(output', NL)
          /\ last_was_block'

FallbackTags == {t \in {n.tag : n \in BlockTemplates \cup {PlainBody}} : Unrecognized(t)}

C24_BlockContainers == [][BlockContainerStep(BlockTags \cup FallbackTags)]_vars

\* C24 amended: the block containers are div, section, article and p; the
\* fallback for a tag with no rule of its own is not one of them
C24_BlockContainersAmended == [][BlockContainerStep(BlockTags)]_vars

\* a paragraph, a div, a section and an article have each closed after text
C24_Witness ==
    /\ pc = "done"
    /\ last_was_block
    /\ EndsWith(output, "a" \o NL)
    /\ \E j \in 3..Len(document) :
          /\ document[j].tag \in BlockTags
          /\ \E k \in (j + 1)..Len(document) :
                document[k].kind = "text" /\ IsAncestor(document, j, k)

(***************************************************************************)
(* C25. span, label, time, small, sup, sub and every tag no arm names add  *)
(* no markup of their own: neither entering nor leaving such an element    *)
(* changes the buffer or a flag, and rendering the element gives exactly   *)
(* the buffer and the flags that rendering its children in its place       *)
(* gives.                                                                  *)
(***************************************************************************)
SpanArmTags == {"span", "label", "time", "small", "sup", "sub"}

PassesThrough(tag) == tag \in SpanArmTags \/ Unrecognized(tag)

C25_PassthroughStep ==
    /\ (AtElement /\ PassesThrough(NextChild.tag)) =>
          /\ UNCHANGED <<output, image_count, list_depth, in_pre, last_was_block>>
          /\ render_children(Self, document, <<Head(Top.rest)>>, NoArts)
                = render_children(Self, document,
                                  Children(document, Head(Top.rest)), NoArts)
    /\ (ElementReturns /\ PassesThrough(ReturningTag)) =>
          UNCHANGED <<output, image_count, list_depth, in_pre, last_was_block>>

C25_InlinePassthrough == [][C25_PassthroughStep]_vars

\* a paragraph of text in a tag no arm names: the walk is leaving the outer
\* element, whose children put a newline and a block boundary there
C25_Witness ==
    /\ ElementReturns
    /\ ReturningTag = "x-note"
    /\ output = NL \o "a" \o NL
    /\ last_was_block
    /\ Len(document) = 5

(***************************************************************************)
(* C26. An a element renders its children first (entering it appends       *)
(* nothing); when it finishes, the annotation " [-> URL]" (with the arrow  *)
(* glyph) is appended exactly when its href is an absolute URL that is no  *)
(* script, URL being the whole href if it has at most 40 characters and    *)
(* else its first 40 characters and an ellipsis; a missing, relative or    *)
(* script href appends nothing.                                            *)
(***************************************************************************)
AbsoluteHref(href) == IsSome(UrlParse(href))

ScriptHref(href) == StartsWith(ToLowercase(href), "javascript:")

ClaimedLinkNote(node) ==
    LET href == Attr(node, "href")
    IN  IF IsSome(href) /\ AbsoluteHref(Unwrap(href)) /\ ~ScriptHref(Unwrap(href))
        THEN " [" \o GLYPH_ARROW \o " "
             \o (IF Len(Unwrap(href)) <= 40 THEN Unwrap(href)
                 ELSE SubSeq(Unwrap(href), 1, 40) \o "...")
             \o "]"
        ELSE ""

C26_LinkStep ==
    /\ (AtElement /\ NextChild.tag = "a") =>
          UNCHANGED <<output, last_was_block>>
    /\ (ElementReturns /\ ReturningTag = "a") =>
          /\ output' = output \o ClaimedLinkNote(document[Top.node])
          /\ UNCHANGED last_was_block

C26_LinkAnnotation == [][C26_LinkStep]_vars

(***************************************************************************)
(* C27. A list item starts on a line of its own with two spaces per level  *)
(* of (list_depth - 1) and then the bullet: an li in k >= 1 lists gets     *)
(* 2*(k-1) spaces, an li in no list gets none and list_depth stays 0; the  *)
(* bullet is the same in ol and in ul.                                     *)
(***************************************************************************)
\* the ul and ol elements the node lies in
ListsAround(j) ==
    {i \in 1..Len(document) :
        document[i].tag \in {"ul", "ol"} /\ IsAncestor(document, i, j)}

ItemIndent(k) == IF k >= 1 THEN 2 * (k - 1) ELSE 0

C27_ItemStep ==
    (AtElement /\ NextChild.tag = "li") =>
        LET k == Cardinality(ListsAround(Head(Top.rest)))
            start == Repeat(" ", ItemIndent(k)) \o GLYPH_BULLET \o " "
        IN  /\ list_depth = k
            /\ list_depth' = k
            /\ \/ output' = start
               \/ /\ EndsWith(output', NL \o start)
                  /\ SubSeq(output', 1, Len(output') - Len(start)) \in {output, output \o NL}

C27_ItemIndentation == [][C27_ItemStep]_vars

\* an item in a list in a list was rendered, two spaces before its bullet
C27_Witness ==
    /\ pc = "done"
    /\ list_depth = 0
    /\ output = "  " \o GLYPH_BULLET \o " " \o NL
    /\ Cardinality(ListsAround(Len(document))) = 2

(***************************************************************************)
(* C28. While a blockquote is open and when it finishes, the buffer as it  *)
(* was before the blockquote's children were rendered is unchanged; when   *)
(* it finishes, every line it contributed starts with the quote marker and *)
(* ends with a newline: the lines are those its children left, in their    *)
(* order, each behind one more marker, so that the lines of a blockquote   *)
(* in a blockquote carry one marker per level once both have finished.     *)
(***************************************************************************)
OpenBlockquotes ==
    {k \in DOMAIN stack :
        stack[k].node # 0 /\ document[stack[k].node].tag = "blockquote"}

C28_BlockquoteFrameStep ==
    /\ \A k \in OpenBlockquotes :
          /\ Len(output') >= stack[k].start_len
          /\ SubSeq(output', 1, stack[k].start_len)
                = SubSeq(output, 1, stack[k].start_len)
    /\ BlockquoteReturns =>
          LET children == Lines(SubSeq(output, Top.start_len + 1, Len(output)))
              contributed == SubSeq(output', Top.start_len + 1, Len(output'))
          IN  /\ contributed = "" \/ EndsWith(contributed, NL)
              /\ Len(Lines(contributed)) = Len(children)
              /\ \A i \in 1..Len(children) :
                    Lines(contributed)[i] = QUOTE_MARKER \o children[i]

C28_BlockquoteFrame == [][C28_BlockquoteFrameStep]_vars

\* a blockquote in a blockquote has finished: two markers before its text
C28_Witness ==
    /\ pc = "done"
    /\ Contains(output, NL \o QUOTE_MARKER \o QUOTE_MARKER \o "a" \o NL)

(***************************************************************************)
(* C29. For every brightness b in 0..255 the glyph index is                *)
(* floor(b * (ramp length - 1) / 255); it lies in 0..9, so that the ramp   *)
(* is never indexed out of range, it does not decrease as b grows, and     *)
(* b = 0 gives the first glyph of the ramp, b = 255 the last.              *)
(***************************************************************************)
Ramp == <<" ", ".", ":", "-", "=", "+", "*", "#", "%", "@">>

\* floor(n / d) for n >= 0, d > 0: the q with q * d <= n < (q + 1) * d
IsFloorOf(q, n, d) == q * d <= n /\ n < (q + 1) * d

C29_GlyphIndex ==
    Returned =>
        LET index == Unwrap(result).char_index
        IN  /\ index \in 0..9
            /\ IsFloorOf(index, input * (Len(Ramp) - 1), 255)
            /\ Unwrap(result).glyph = Ramp[index + 1]
            /\ \A b \in 0..input : CharIndex(b) <= index
            /\ input = 0 => Unwrap(result).glyph = Ramp[1]
            /\ input = 255 => Unwrap(result).glyph = Ramp[Len(Ramp)]

\* the brightest pixel got the last glyph
C29_Witness == Returned /\ input = 255 /\ Unwrap(result).glyph = "@"

(***************************************************************************)
(* C30. In the search results view the key q quits the application, as the *)
(* legend of the view and the key list of the About screen say: the        *)
(* iteration of run_app that handles a key of which they say "Quit" ends   *)
(* the event loop.                                                         *)
(***************************************************************************)
QuitKeys ==
    {e.key : e \in {l \in ResultsLegend \cup AboutKeybindings : l.does = "Quit"}}

\* run_app handles a key event in the search results view
HandlesResultsKey == pc = "loop" /\ app.view = "SearchResults" /\ code' # None

C30_QuitStep ==
    (HandlesResultsKey /\ Unwrap(code') \in QuitKeys) =>
        /\ app'.should_quit
        /\ pc' = "exited"

C30_QuitFromResults == [][C30_QuitStep]_vars

(***************************************************************************)
(* C31. After any sequence of add_to_history calls the stored history      *)
(* holds at most 100 entries, newest first: the page opened last is at     *)
(* index 0, and once more than 100 pages have been opened exactly the      *)
(* oldest entries have been dropped.  With the calls numbered by the       *)
(* clock, the file after call n holds the calls n, n - 1, ... down to      *)
(* n - 99 (or to 1), in this order.                                        *)
(***************************************************************************)
Opened == input.now

C31_HistoryNewestFirst ==
    pc = "returned" =>
        /\ Len(history) = Min(Opened, HISTORY_CAP)
        /\ \A i \in 1..Len(history) : history[i].timestamp = Opened - i + 1

(***************************************************************************)
(* C32. After any sequence of key events, whenever the view is             *)
(* SearchResults or WebPage the result list is non-empty and the selected  *)
(* index is defined and less than the number of results; next and previous *)
(* wrap around (next from the last result selects the first, previous from *)
(* the first selects the last) and never leave the range.                  *)
(***************************************************************************)
SelectionInRange ==
    /\ app.results # <<>>
    /\ IsSome(app.list_state)
    /\ Unwrap(app.list_state) < Len(app.results)

NextKeys == {"j", "Down"}
PreviousKeys == {"k", "Up"}

\* a key of next or previous arrives in the result list
C32_NavigationStep ==
    (/\ app.view = "SearchResults" /\ SelectionInRange
     /\ code' \in {Some(key) : key \in NextKeys \cup PreviousKeys})
    => LET n == Len(app.results)
           i == Unwrap(app.list_state)
       IN  /\ app'.results = app.results
           /\ app'.view = "SearchResults"
           /\ app'.list_state = IF Unwrap(code') \in NextKeys
                                THEN Some((i + 1) % n)
                                ELSE Some((i + n - 1) % n)

C32_SelectionValid ==
    /\ [](app.view \in {"SearchResults", "WebPage"} => SelectionInRange)
    /\ [][C32_NavigationStep]_vars

\* previous was called on the first of three results
C32_Witness ==
    /\ app.view = "SearchResults"
    /\ code = Some("k")
    /\ Len(app.results) = 3
    /\ app.list_state = Some(2)

(***************************************************************************)
(* C33. After any sequence of scroll_down, scroll_up, jump-to-top,         *)
(* jump-to-bottom, open_selected and back_to_results, page_scroll stays    *)
(* within 0 and max(0, number of page lines - 10): scroll_down clamps at   *)
(* that maximum, scroll_up saturates at 0, and opening a page or going     *)
(* back resets it to 0.                                                    *)
(***************************************************************************)
MaxScroll(a) == IF Len(a.page_content) > 10 THEN Len(a.page_content) - 10 ELSE 0

ScrollInRange == app.page_scroll >= 0 /\ app.page_scroll <= MaxScroll(app)

\* the lines a key of the page view scrolls down (positive) or up (negative)
ScrollKeys ==
    [j |-> 1, Down |-> 1, k |-> -1, Up |-> -1, d |-> 20, PageDown |-> 20,
     b |-> -20, u |-> -20, PageUp |-> -20] @@ (" " :> 20)

C33_ScrollStep ==
    /\ (app.view = "WebPage" /\ IsSome(code') /\ Unwrap(code') \in DOMAIN ScrollKeys)
       => LET target == app.page_scroll + ScrollKeys[Unwrap(code')]
          IN  /\ app'.page_content = app.page_content
              /\ app'.page_scroll = IF target > MaxScroll(app) THEN MaxScroll(app)
                                    ELSE IF target < 0 THEN 0 ELSE target
    /\ (app.view = "WebPage" /\ code' \in {Some("g"), Some("Home")})
       => app'.page_scroll = 0
    /\ (app.view = "WebPage" /\ code' \in {Some("G"), Some("End")})
       => app'.page_scroll = MaxScroll(app)
    /\ (app.view = "SearchResults" /\ app'.view = "WebPage") => app'.page_scroll = 0
    /\ (app.view = "WebPage" /\ app'.view = "SearchResults") => app'.page_scroll = 0

C33_ScrollBounded == []ScrollInRange /\ [][C33_ScrollStep]_vars

\* a page down that stopped at the last position of a page of 31 lines
C33_Witness ==
    /\ app.view = "WebPage"
    /\ code = Some(" ")
    /\ Len(app.page_content) = 31
    /\ app.page_scroll = 21

(***************************************************************************)
(* C34. After any sequence of insert_char, delete_char, move_cursor_left   *)
(* and move_cursor_right on the home screen, for any typed characters      *)
(* including multi-byte ones, cursor_position is between 0 and the length  *)
(* of search_input and is a valid position for insertion and removal in    *)
(* it (the byte offset of a character or the end), so insert_char and      *)
(* delete_char never fail.                                                 *)
(***************************************************************************)
CursorValid ==
    /\ app.cursor_position >= 0
    /\ app.cursor_position <= ByteLen(app.search_input)
    /\ IsCharBoundary(app.search_input, app.cursor_position)

C34_CursorValid == pc # "panicked" /\ CursorValid

(***************************************************************************)
(* C35. should_quit is set only while the view is Home; Esc in WebPage     *)
(* returns to SearchResults and Esc in SearchResults returns to Home       *)
(* (clearing the results) without quitting, so from any reachable state in *)
(* which the event loop runs, three Esc key presses end it: the first,     *)
(* the second or the third of them sets should_quit.                       *)
(***************************************************************************)
\* the App after the arm of its view has handled Esc
PressEsc(a) ==
    CASE a.view = "Home" -> HandleHome(a, "Esc", Found(FALSE, <<>>)).app
      [] a.view = "SearchResults" -> HandleSearchResults(a, "Esc", Page(FALSE, 0))
      [] a.view = "WebPage" -> HandleWebPage(a, "Esc")

\* the loop has ended after at most three Esc
ThreeEscEnd(a) ==
    LET first == PressEsc(a)
        second == PressEsc(first)
        third == PressEsc(second)
    IN  \/ AfterKey(first) = "exited"
        \/ AfterKey(first) = "loop" /\ AfterKey(second) = "exited"
        \/ AfterKey(first) = "loop" /\ AfterKey(second) = "loop"
           /\ AfterKey(third) = "exited"

C35_EscStep ==
    /\ (app'.should_quit /\ ~app.should_quit) => app.view = "Home"
    /\ (app.view = "WebPage" /\ code' = Some("Esc"))
       => app'.view = "SearchResults" /\ ~app'.should_quit /\ pc' = "loop"
    /\ (app.view = "SearchResults" /\ code' = Some("Esc"))
       => /\ app'.view = "Home" /\ app'.results = <<>>
          /\ ~app'.should_quit /\ pc' = "loop"
    /\ (app.view = "Home" /\ code' = Some("Esc")) => app'.should_quit /\ pc' = "exited"

C35_ThreeEscQuit ==
    /\ [](pc = "loop" => ~app.should_quit /\ ThreeEscEnd(app))
    /\ [](app.should_quit => app.view = "Home" /\ pc = "exited")
    /\ [][C35_EscStep]_vars

\* Esc ended the loop on the home screen after a page had been opened and
\* the results had been left
C35_Witness ==
    /\ pc = "exited"
    /\ code = Some("Esc")
    /\ app.page_url # ""
    /\ app.results = <<>>

(***************************************************************************)
(* C36. The separating space of text-node handling is never placed         *)
(* directly after an opening inline marker: for strong/b, em/i and inline  *)
(* code the first text of the element follows the opening marker with no   *)
(* space in between, whatever was emitted before the element.              *)
(***************************************************************************)
\* the opening marker of the element whose children are being rendered
OpeningMarker ==
    LET tag == document[Top.node].tag
    IN  CASE tag \in {"strong", "b"} -> "**"
          [] tag \in {"em", "i"} -> "_"
          [] tag = "code" /\ Top.marked -> GLYPH_BACKTICK
          [] OTHER -> ""

\* the next child is a text with words, and the first child of an element
\* that has just pushed its opening marker
AtFirstTextOfMarked ==
    /\ AtText /\ ~in_pre /\ Words # <<>>
    /\ Top.node # 0
    /\ OpeningMarker # ""
    /\ Top.rest = Children(document, Top.node)

C36_MarkerStep ==
    AtFirstTextOfMarked =>
        /\ EndsWith(output, OpeningMarker)
        /\ output' = output \o JoinWith(Words, " ")

C36_NoSpaceAfterMarker == [][C36_MarkerStep]_vars

(***************************************************************************)
(* C37. For an img element the lazy-load attributes are consulted only     *)
(* when earlier ones are absent: data-src is used only if src is missing   *)
(* and data-lazy-src only if both are missing; when a src attribute is     *)
(* present but rejected by the admission filter, no image is rendered and  *)
(* no fetch is issued even if data-src holds an admissible URL.            *)
(***************************************************************************)
AtImg == AtChild /\ NextChild.kind = "element" /\ NextChild.tag = "img"

Has(name) == name \in DOMAIN NextChild.attrs

\* the attribute the claim lets the image use
ClaimedSource ==
    IF Has("src") THEN "src"
    ELSE IF Has("data-src") THEN "data-src"
    ELSE IF Has("data-lazy-src") THEN "data-lazy-src"
    ELSE ""

FetchIssued == Len(fetched') = Len(fetched) + 1

C37_ImgStep ==
    AtImg =>
        /\ FetchIssued =>
              /\ ClaimedSource # ""
              /\ fetched'[Len(fetched')].url =
                     Unwrap(resolve_url(NextChild.attrs[ClaimedSource], base_url))
        /\ ~FetchIssued => UNCHANGED <<fetched, output, image_count>>
        /\ (ClaimedSource # "" /\ should_render_image(NextChild.attrs[ClaimedSource])
            /\ image_count < max_images) => FetchIssued
        /\ (Has("src") /\ ~should_render_image(NextChild.attrs["src"]))
              => UNCHANGED <<fetched, output, image_count>>

C37_LazySourceOrder == [][C37_ImgStep]_vars

\* an image was fetched from its data-lazy-src and rendered, and the image
\* after it, a placeholder src beside an admissible data-src, left nothing
C37_Witness ==
    /\ pc = "done"
    /\ Len(document) = 4
    /\ document[3] = [LazyLazy EXCEPT !.parent = 2]
    /\ document[4] = [LazyPlaceholder EXCEPT !.parent = 2]
    /\ Len(fetched) = 1
    /\ fetched[1].url = DataLazySrcUrl
    /\ image_count = 1

====
